---------------------------- MODULE Spec2Model ----------------------------
(***************************************************************************)
(* A model of the agent execution core of the coder CLI: the tool input    *)
(* validation (schema.Schema.Validate, tools.Tool.Run), the permission     *)
(* gateway (common.PermissionManager), and the agent loops that dispatch   *)
(* tool calls (llm.Agent.Run with the InteractiveAgent and sub-agent       *)
(* callbacks, and chat.Session.continueConversation).                      *)
(*                                                                         *)
(* Text is modelled as a sequence of tokens; fmt.Sprintf and + are         *)
(* concatenation of such sequences.  A nil error is the empty text.        *)
(***************************************************************************)
EXTENDS Integers, Sequences, FiniteSets, TLC

(***************************************************************************)
(* Bounds of the model.                                                    *)
(***************************************************************************)
MaxArrayLen == 1
MaxRequests == 2
MaxCalls == 2

NoErr == <<>>

RECURSIVE Contains(_, _)
\* strings.Contains on token sequences: sub occurs contiguously in text.
Contains(text, sub) ==
    IF Len(sub) > Len(text) THEN FALSE
    ELSE IF SubSeq(text, 1, Len(sub)) = sub THEN TRUE
    ELSE IF text = <<>> THEN FALSE
    ELSE Contains(Tail(text), sub)

Itoa(i) == <<"0", "1", "2", "3", "4", "5">>[i + 1]

(***************************************************************************)
(* JSON values as json.Unmarshal decodes them into map[string]any: a tag t *)
(* and, for arrays and objects, the children.                              *)
(***************************************************************************)
VString == [t |-> "string", kids |-> <<>>]
VNumber == [t |-> "number", kids |-> <<>>]
VBool == [t |-> "bool", kids |-> <<>>]
VNull == [t |-> "null", kids |-> <<>>]
VArray(items) == [t |-> "array", kids |-> items]
VObject(fields) == [t |-> "object", kids |-> fields]

(***************************************************************************)
(* schema.Schema and schema.Property.  AdditionalProperties is an `any`:   *)
(* "unset" is the nil interface of a schema that declares nothing, "false" *)
(* and "true" are the booleans, "schema" a nested schema value.  Items is  *)
(* a *Schema: <<>> is nil, <<s>> points to s.                              *)
(***************************************************************************)
MkSchema(props, req, ap) ==
    [Type |-> "object", Properties |-> props, Required |-> req,
     AdditionalProperties |-> ap]

\* `&schema.Schema{Type: type}`: the items schema of an array of primitives.
MkItems(type) ==
    [Type |-> type, Properties |-> <<>>, Required |-> <<>>,
     AdditionalProperties |-> "unset"]

MkProperty(type, items, props, req, ap) ==
    [Type |-> type, Items |-> items, Properties |-> props,
     Required |-> req, AdditionalProperties |-> ap]

Scalar(type) == MkProperty(type, <<>>, <<>>, <<>>, "unset")

\* Mutant of AdditionalPropertiesIsFalse: an unset value counts as false.
AdditionalPropertiesIsFalse_Nil(ap) == ap \in {"false", "unset"}

\* `s.AdditionalProperties == false` on an `any`: the nil interface is not false.
AdditionalPropertiesIsFalse(ap) == ap = "false"

\* Mutant of FirstMissing: the required-field loop is skipped.
FirstMissing_Skip(required, input) == 0

\* The loop over s.Required: the index of the first required field that the
\* input lacks, 0 when none is missing.
FirstMissing(required, input) ==
    LET missing == {i \in 1..Len(required) : required[i] \notin DOMAIN input}
    IN IF missing = {} THEN 0
       ELSE CHOOSE i \in missing : \A j \in missing : i <= j

RECURSIVE ValidateErrs(_, _)
RECURSIVE FieldErrs(_, _, _)
RECURSIVE ItemsErrs(_, _, _, _)

\* The array branch: items are visited in order; only items that are objects
\* are validated, against property.Items; the first failure is returned.
ItemsErrs(items, arr, f, i) ==
    IF i > Len(arr) THEN {}
    ELSE LET errs == IF arr[i].t = "object"
                     THEN ValidateErrs(items, arr[i].kids) ELSE {}
         IN IF errs # {}
            THEN {<<"array item ", Itoa(i - 1), " in field ", f, ": ">> \o e : e \in errs}
            ELSE ItemsErrs(items, arr, f, i + 1)

\* The body of the loop over the input's fields, for field f with value v: the
\* errors it can return ({} when the field passes).
FieldErrs(s, f, v) ==
    IF f \notin DOMAIN s.Properties
    THEN IF AdditionalPropertiesIsFalse(s.AdditionalProperties)
         THEN {<<"unexpected field: ", f>>}
         ELSE {}
    ELSE LET p == s.Properties[f] IN
         CASE p.Type = "string" ->
                IF v.t = "string" THEN {} ELSE {<<"field ", f, " must be a string">>}
           [] p.Type \in {"number", "integer"} ->
                IF v.t = "number" THEN {} ELSE {<<"field ", f, " must be a number">>}
           [] p.Type = "boolean" ->
                IF v.t = "bool" THEN {} ELSE {<<"field ", f, " must be a boolean">>}
           [] p.Type = "array" ->
                IF v.t # "array" THEN {<<"field ", f, " must be an array">>}
                ELSE IF p.Items = <<>> THEN {}
                ELSE ItemsErrs(p.Items[1], v.kids, f, 1)
           [] p.Type = "object" ->
                IF v.t # "object" THEN {<<"field ", f, " must be an object">>}
                ELSE IF DOMAIN p.Properties = {} THEN {}
                ELSE {<<"in nested object ", f, ": ">> \o e :
                        e \in ValidateErrs(MkSchema(p.Properties, p.Required,
                                                    p.AdditionalProperties), v.kids)}
           [] OTHER -> {}

\* schema.Schema.Validate: the set of errors the call can return; the empty
\* set means it returns nil.  Go visits the fields of a map in an unspecified
\* order, so any failing field can be the one reported.
ValidateErrs(s, input) ==
    LET m == FirstMissing(s.Required, input)
    IN IF m # 0 THEN {<<"missing required field: ", s.Required[m]>>}
       ELSE UNION {FieldErrs(s, f, input[f]) : f \in DOMAIN input}

\* The outcomes of Validate as error values: nil (NoErr) or one of the errors.
ValidateResults(s, input) ==
    IF ValidateErrs(s, input) = {} THEN {NoErr} ELSE ValidateErrs(s, input)

\* tools.Tool[Input, Output].Validate of tool.go, the generic tool type: its
\* Schema has no AdditionalProperties and every undeclared field is an error.
LegacyValidateErrs(s, input) ==
    LET m == FirstMissing(s.Required, input)
        one(f) ==
            IF f \notin DOMAIN s.Properties THEN {<<"unexpected field: ", f>>}
            ELSE LET ty == s.Properties[f].Type
                     v == input[f] IN
                 CASE ty = "string" ->
                        IF v.t = "string" THEN {} ELSE {<<"field ", f, " must be a string">>}
                   [] ty \in {"number", "integer"} ->
                        IF v.t = "number" THEN {} ELSE {<<"field ", f, " must be a number">>}
                   [] ty = "boolean" ->
                        IF v.t = "bool" THEN {} ELSE {<<"field ", f, " must be a boolean">>}
                   [] ty = "array" ->
                        IF v.t = "array" THEN {} ELSE {<<"field ", f, " must be an array">>}
                   [] ty = "object" ->
                        IF v.t = "object" THEN {} ELSE {<<"field ", f, " must be an object">>}
                   [] OTHER -> {}
    IN IF m # 0 THEN {<<"missing required field: ", s.Required[m]>>}
       ELSE UNION {one(f) : f \in DOMAIN input}

(***************************************************************************)
(* The catalog's schemas (read, write, agent) and a schema family that     *)
(* exercises every branch of Validate.                                     *)
(***************************************************************************)
ReadSchema ==
    MkSchema([path |-> Scalar("string"), start |-> Scalar("integer"),
              end |-> Scalar("integer")], <<"path">>, "unset")

WriteSchema ==
    MkSchema([path |-> Scalar("string"), content |-> Scalar("string")],
             <<"path", "content">>, "unset")

DefinitionSchema ==
    MkSchema([file_path |-> Scalar("string"), line |-> Scalar("integer"),
              character |-> Scalar("integer")],
             <<"file_path", "line", "character">>, "unset")

AgentSchema ==
    MkSchema([description |-> Scalar("string"), prompt |-> Scalar("string")],
             <<"description", "prompt">>, "unset")

ItemSchema == MkSchema([name |-> Scalar("string")], <<"name">>, "unset")

HarnessProps ==
    [path |-> Scalar("string"),
     start |-> Scalar("integer"),
     list |-> MkProperty("array", <<ItemSchema>>, <<>>, <<>>, "unset"),
     opts |-> MkProperty("object", <<>>, [name |-> Scalar("string")],
                         <<"name">>, "unset")]

\* The paths property of the grep tool, an array of strings, under the
\* harness's name for its array field.
StringListProps ==
    [path |-> Scalar("string"),
     list |-> MkProperty("array", <<MkItems("string")>>, <<>>, <<>>, "unset")]

HarnessSchemas ==
    {MkSchema(HarnessProps, req, ap) :
        req \in {<<>>, <<"path">>, <<"path", "opts">>},
        ap \in {"unset", "false", "true", "schema"}}
    \cup {ReadSchema, WriteSchema, MkSchema(StringListProps, <<"path", "list">>, "unset")}

ItemSamples ==
    {VString, VNumber, VObject(<<>>), VObject([name |-> VString]),
     VObject([name |-> VNumber])}

ArraySamples ==
    UNION {[1..n -> ItemSamples] : n \in 0..MaxArrayLen}

\* The values tried for each field name; Absent stands for a key the map lacks.
Absent == [t |-> "absent", kids |-> <<>>]

FieldSamples ==
    [path |-> {Absent, VString, VNumber, VNull},
     start |-> {Absent, VNumber, VString},
     list |-> {Absent, VString} \cup {VArray(a) : a \in ArraySamples},
     opts |-> {Absent, VNumber, VObject(<<>>), VObject([name |-> VString]),
               VObject([name |-> VNumber])},
     extra |-> {Absent, VString}]

\* map[string]any values: the total assignments with the absent keys removed.
HarnessInputs ==
    {[f \in {g \in DOMAIN FieldSamples : a[g] # Absent} |-> a[f]] :
        a \in [path : FieldSamples.path, start : FieldSamples.start,
               list : FieldSamples.list, opts : FieldSamples.opts,
               extra : FieldSamples.extra]}

(***************************************************************************)
(* The permission gateway: common.PermissionManager.                       *)
(***************************************************************************)
\* config.DefaultPermissionConfig, restricted to the tools of the model.
DefaultAutoApprove == [read |-> TRUE, definition |-> TRUE, agent |-> TRUE]

DefaultPolicyText == <<"Permission denied by default policy">>

MkResponse(granted, alternate) == [Granted |-> granted, AlternateAction |-> alternate]

\* Mutant of AutoApproved: presence in the allow-list is taken for approval.
AutoApproved_Present(auto, name) == name \in DOMAIN auto

\* `autoApprove, ok := m.config.AutoApprove[request.ToolName]; ok && autoApprove`
AutoApproved(auto, name) == name \in DOMAIN auto /\ auto[name]

\* Mutant of PermissionRoute: the handler is consulted before the allow-list.
PermissionRoute_HandlerFirst(auto, handler, name) ==
    IF handler # "nil" THEN "handler"
    ELSE IF AutoApproved(auto, name) THEN "auto"
    ELSE "default"

\* Which of the three branches of RequestPermission a request takes.
PermissionRoute(auto, handler, name) ==
    IF AutoApproved(auto, name) THEN "auto"
    ELSE IF handler # "nil" THEN "handler"
    ELSE "default"

\* Mutant of DefaultPolicy: the default policy grants.
DefaultPolicy_Grant == TRUE

\* NewPermissionManager: defaultPolicy is false.
DefaultPolicy == FALSE

\* Mutant of ImmediateResponse: the default branch returns no alternate text.
ImmediateResponse_NoText(route) ==
    IF route = "auto" THEN MkResponse(TRUE, <<>>)
    ELSE MkResponse(DefaultPolicy, <<>>)

\* The response of the two branches that do not involve the handler.
ImmediateResponse(route) ==
    IF route = "auto" THEN MkResponse(TRUE, <<>>)
    ELSE MkResponse(DefaultPolicy, DefaultPolicyText)

\* Mutant of ForwardedResponse: only the decision is passed on.
ForwardedResponse_DropAlternate(resp) == MkResponse(resp.Granted, <<>>)

\* `return m.handler.RequestPermission(request)`
ForwardedResponse(resp) == resp

\* What the human can answer to a prompt: approve, or refuse with an
\* alternate instruction.
AlternateText == <<"use search_replace instead">>

HumanAnswers == {MkResponse(TRUE, <<>>), MkResponse(FALSE, AlternateText)}

(***************************************************************************)
(* Messages, tool calls and the tool catalog.                              *)
(***************************************************************************)
\* llm.Message; ToolCallID "" and ToolCalls <<>> are the zero values.
Msg(role, content, calls, id) ==
    [Role |-> role, Content |-> content, ToolCalls |-> calls, ToolCallID |-> id]

NoMsg == Msg("", <<>>, <<>>, "")

\* Mutant of ToolMessage: the tool-call ID is left out of the message.
ToolMessage_NoID(content, call) == Msg("tool", content, <<>>, "")

\* The tool-role message that answers a tool call.
ToolMessage(content, call) == Msg("tool", content, <<>>, call.ID)

SystemPromptText == <<"system prompt">>

AgentPromptText == <<"You are a code analysis agent.">>

UserText == <<"user input">>

AssistantText == <<"assistant text">>

ContinueText == <<"Please continue exactly from where you left off.">>

\* The registry of main: the name a tool is registered under -> tool.  The
\* definition tool of the LSP package is registered as lsp_definition.
ReadTool ==
    [Name |-> "read", Description |-> <<"Read content from a file">>,
     InputSchema |-> ReadSchema]

WriteTool ==
    [Name |-> "write", Description |-> <<"Write content to a file">>,
     InputSchema |-> WriteSchema]

DefinitionTool ==
    [Name |-> "definition", Description |-> <<"Find the definition of a symbol">>,
     InputSchema |-> DefinitionSchema]

AgentTool ==
    [Name |-> "agent", Description |-> <<"Launch a new agent that can analyze code">>,
     InputSchema |-> AgentSchema]

MainRegistry ==
    [read |-> ReadTool, write |-> WriteTool, lsp_definition |-> DefinitionTool]

\* The registry once main has registered the agent tool, which is the one
\* Execute filters.
RegistryAtExecute ==
    [n \in DOMAIN MainRegistry \cup {"agent"} |->
        IF n = "agent" THEN AgentTool ELSE MainRegistry[n]]

\* Mutant of ReadOnlyTools: the agent tool is on the list.
ReadOnlyTools_WithAgent ==
    {"read", "ls", "glob", "grep", "tree", "outline",
     "lsp_definition", "lsp_references", "lsp_callhierarchy", "agent"}

ReadOnlyTools ==
    {"read", "ls", "glob", "grep", "tree", "outline",
     "lsp_definition", "lsp_references", "lsp_callhierarchy"}

\* Mutant of FilteredRegistry: the agent tool hands on the whole registry.
FilteredRegistry_All(registry) == registry

\* The filtered registry of the agent tool: the read-only tools that exist.
FilteredRegistry(registry) ==
    [name \in DOMAIN registry \cap ReadOnlyTools |-> registry[name]]

\* What Registry.ListTools holds, order apart: one llm.Tool per entry, named
\* by the key it is registered under.
ListedTools(registry) ==
    {[Name |-> n, Description |-> registry[n].Description,
      Parameters |-> registry[n].InputSchema] : n \in DOMAIN registry}

\* The tools the agent tool creates its agent with, sent in each of its
\* requests.
SubagentTools == ListedTools(FilteredRegistry(MainRegistry))

\* Raw arguments as the model sends them: text that json.Unmarshal either
\* rejects or decodes into a map.
RawArgs(fields) == [ok |-> TRUE, val |-> fields]

BadJSON == [ok |-> FALSE, val |-> <<>>]

JSONErrorText == "unexpected end of JSON input"

\* The tool calls the model is let to emit: a valid read, a valid write, a
\* write without its required content, an unknown tool, unparsable arguments.
CallSamples ==
    {[Name |-> "read", Arguments |-> RawArgs([path |-> VString])],
     [Name |-> "write", Arguments |-> RawArgs([path |-> VString, content |-> VString])],
     [Name |-> "write", Arguments |-> RawArgs([path |-> VString])],
     [Name |-> "nosuch", Arguments |-> RawArgs([path |-> VString])],
     [Name |-> "read", Arguments |-> BadJSON]}

\* A valid call of the definition tool under the name it is registered and
\* advertised with.
DefinitionCall ==
    [Name |-> "lsp_definition",
     Arguments |-> RawArgs([file_path |-> VString, line |-> VNumber,
                            character |-> VNumber])]

\* A valid call of the agent tool.
AgentCall ==
    [Name |-> "agent",
     Arguments |-> RawArgs([description |-> VString, prompt |-> VString])]

\* The tool calls the models of a delegation are let to emit: the agent
\* tool and a read.
DelegationSamples ==
    {AgentCall, [Name |-> "read", Arguments |-> RawArgs([path |-> VString])]}

IdOf(n) == <<"call_1", "call_2", "call_3", "call_4", "call_5", "call_6">>[n]

\* The batches of n tool calls, drawn from samples, whose IDs start at
\* number first.
Batches(first, n, samples) ==
    {[i \in 1..n |-> [ID |-> IdOf(first + i - 1), Name |-> c[i].Name,
                      Arguments |-> c[i].Arguments]] : c \in [1..n -> samples]}

FinishReasons == {"tool_calls", "stop", "length", "content_filter"}

\* What CreateChatCompletion can return: an error, a response without
\* choices, or a first choice (finish reason and assistant message).  A
\* message that finishes with tool_calls carries any batch the call budget
\* allows; a message that finishes otherwise carries no tool call.
ModelOutcomes(first, samples) ==
    LET left == MaxCalls - (first - 1) IN
    {[kind |-> k, FinishReason |-> "", ToolCalls |-> <<>>] : k \in {"error", "empty"}}
    \cup {[kind |-> "choice", FinishReason |-> "tool_calls", ToolCalls |-> b] :
            b \in UNION {Batches(first, n, samples) : n \in 0..left}}
    \cup {[kind |-> "choice", FinishReason |-> f, ToolCalls |-> b] :
            f \in FinishReasons \ {"tool_calls"}, b \in {<<>>}}

(***************************************************************************)
(* Texts the loops produce.                                                *)
(***************************************************************************)
ErrInterrupted == <<"operation interrupted">>

ErrToolInterrupted == <<"tool execution interrupted">>

ErrAPI == <<"calling API: ", "transport error">>

ErrNoChoices == <<"no response choices">>

\* fmt.Errorf("handling tool calls: %w", err)
WrapHandling(err) == <<"handling tool calls: ">> \o err

\* fmt.Errorf("tool call failed: %w", err)
WrapToolCall(err) == <<"tool call failed: ">> \o err

\* Agent.handleToolCalls formats with the verb %a, which fmt renders as
\* %!a(string=...) for a string operand.
AgentParseErrorText(name) ==
    <<"Error parsing arguments for ", "%!a(string=", name, ")", ": ",
      "%!a(string=", JSONErrorText, ")">>

SessionParseErrorText(name) ==
    <<"Error parsing arguments for ", name, ": ", JSONErrorText>>

NotFoundText(name) == <<"Tool not found: ", name>>

ExecErrorText(name, err) == <<"Error executing ", name, ": ">> \o err

DenialNotice ==
    <<"The user doesn't want to proceed with this tool use. ",
      "The tool use was rejected (eg. if it was a file edit, the new_string was NOT written to the file).",
      "STOP what you are doing and do this instead\n">>

\* Mutant of InteractiveDenial: the alternate instruction is dropped.
InteractiveDenial_NoAlternate(alternate) == DenialNotice

\* The result InteractiveAgent.handleToolCalls returns for a rejected call.
InteractiveDenial(alternate) == DenialNotice \o alternate

SubagentDenialNotice == <<"Tool use denied by user. ">>

\* fmt.Sprintf("Tool use denied by user. %s", alternate)
SubagentDenial(alternate) == SubagentDenialNotice \o alternate

\* What a tool body returns: its output, or an error.
ToolOutput(name) == <<"output of ", name>>

ToolFailureText == <<"tool failed">>

\* The call of the agent tool in the parent's history, and that history at
\* the moment the agent tool starts its agent.
DelegatingCall ==
    [ID |-> "call_agent", Name |-> "agent",
     Arguments |-> RawArgs([description |-> VString, prompt |-> VString])]

ParentHistory ==
    <<Msg("system", SystemPromptText, <<>>, ""),
      Msg("user", UserText, <<>>, ""),
      Msg("assistant", AssistantText, <<DelegatingCall>>, "")>>

\* What the agent tool writes to its output builder: the task heading, a
\* lookup failure, the heading of a tool call, a denial, a tool result, a
\* message of its agent.
OutTask == <<"## Agent Task: ", "description">>

OutNotFound(name) == <<"### Error: ">> \o NotFoundText(name)

OutToolCall(name) == <<"### Tool Call: ", name>>

OutDenied == <<"Error: ", "Permission denied by user">>

OutToolError(text) == <<"### Tool Result\n", "Error: ">> \o text

OutToolResult(result) == <<"### Tool Result\n">> \o result

OutAgentMessage(content) == <<"### Agent Message\n">> \o content

\* Mutant of AgentToolReport: the assistant messages of the agent are not
\* part of the report, only the final one.
AgentToolReport_FinalOnly(err, out, final) ==
    IF err # NoErr THEN <<"Error running agent: ">> \o err ELSE final.Content

\* What Execute of the agent tool returns: the error of its agent as text,
\* or the output builder closed by the final message.
AgentToolReport(err, out, final) ==
    IF err # NoErr
    THEN <<"Error running agent: ">> \o err
    ELSE out \o <<"## Final Analysis\n\n">> \o final.Content

\* What a tool-call callback returns: (result, err).
CallbackReturn(result, err) == [result |-> result, err |-> err]

\* Mutant of ExecutionFailure: the tool's error is returned as the
\* callback's error.
ExecutionFailure_Propagate(name, err) == CallbackReturn(<<>>, err)

\* `return fmt.Sprintf("Error executing %s: %s", toolName, err.Error()), nil`
ExecutionFailure(name, err) == CallbackReturn(ExecErrorText(name, err), NoErr)

\* Mutant of ToolRunOutcomes: Execute is called without validating first.
ToolRunOutcomes_NoValidate(tool, args) == {[executes |-> TRUE, err |-> NoErr]}

\* Tool.Run up to the call of Execute: Validate decides whether the body is
\* invoked (executes) or Run returns the validation error.
ToolRunOutcomes(tool, args) ==
    IF ValidateErrs(tool.InputSchema, args) = {}
    THEN {[executes |-> TRUE, err |-> NoErr]}
    ELSE {[executes |-> FALSE, err |-> e] : e \in ValidateErrs(tool.InputSchema, args)}

(***************************************************************************)
(* State.  Three groups: the validation harness (one Validate call), the   *)
(* permission harness (a PermissionManager serving requests) and the agent *)
(* loop.  Each specification drives one group and leaves the others idle.  *)
(***************************************************************************)
VARIABLES vpc, vSchema, vInput, vErr, vLegacyErr

VARIABLES ppc, pAuto, pHandler, pReq, pResp, pHandlerReq, pHandlerResp,
          pHandlerCalls, pServed

valVars == <<vpc, vSchema, vInput, vErr, vLegacyErr>>

permVars == <<ppc, pAuto, pHandler, pReq, pResp, pHandlerReq, pHandlerResp,
              pHandlerCalls, pServed>>

VARIABLES driver, askSet, cfgAuto, cfgHandler, Messages, pc, cancelHeld,
          cancelled, batch, idx, requests, nextId, processed, lastErr, lastMsg,
          execLog, permLog, turns, lastInterrupt, lastFinish, reqMessages,
          atCall, parentMessages, outputBuilder

cfgVars == <<driver, askSet, cfgAuto, cfgHandler>>

loopVars == <<Messages, pc, cancelHeld, cancelled, batch, idx, requests, nextId,
              processed, lastErr, lastMsg, execLog, permLog, turns, lastInterrupt,
              lastFinish, reqMessages, atCall, parentMessages, outputBuilder>>

agentVars == <<cfgVars, loopVars>>

VARIABLES sumPc, sMessages, conversationSummary, sumRet, sumReq, sumOutcome,
          sumCalls, summarizedLen

sumVars == <<sumPc, sMessages, conversationSummary, sumRet, sumReq, sumOutcome,
             sumCalls, summarizedLen>>

VARIABLES regPc, tools, regLog, regOp, getRet, listRet, agentMade, agentTools,
          reqTools

regVars == <<regPc, tools, regLog, regOp, getRet, listRet, agentMade, agentTools,
             reqTools>>

VARIABLES parentPc, parentBatch, parentIdx, parentRequests, parentNextId,
          parentErr, spawns, spawnFirstId

delVars == <<parentPc, parentBatch, parentIdx, parentRequests, parentNextId,
             parentErr, spawns, spawnFirstId>>

VARIABLES askPc, inPrompt, promptNo, keys, pressed, updPc, sending, received,
          answers

uiVars == <<askPc, inPrompt, promptNo, keys, pressed, updPc, sending, received,
            answers>>

vars == <<valVars, permVars, agentVars, sumVars, regVars, delVars, uiVars>>

\* What the steps of the loops leave alone.
others == <<cfgVars, valVars, permVars, sumVars, regVars, delVars, uiVars>>

(***************************************************************************)
(* Validation harness: one call of Validate on a schema and an input.      *)
(***************************************************************************)
ValInit ==
    /\ vpc = "ready"
    /\ vSchema \in HarnessSchemas
    /\ vInput \in HarnessInputs
    /\ vErr = NoErr
    /\ vLegacyErr = NoErr

ValIdle ==
    /\ vpc = "off"
    /\ vSchema = ReadSchema
    /\ vInput = <<>>
    /\ vErr = NoErr
    /\ vLegacyErr = NoErr

\* err := schema.Validate(input), and the generic tool type's Validate beside it.
ValidateCall ==
    /\ vpc = "ready"
    /\ vErr' \in ValidateResults(vSchema, vInput)
    /\ vLegacyErr' \in (IF LegacyValidateErrs(vSchema, vInput) = {} THEN {NoErr}
                        ELSE LegacyValidateErrs(vSchema, vInput))
    /\ vpc' = "done"
    /\ UNCHANGED <<vSchema, vInput>>

(***************************************************************************)
(* Permission harness: a PermissionManager built from an allow-list and a  *)
(* handler (nil or the UI handler) serves a bounded number of requests.    *)
(***************************************************************************)
MaxPermRequests == 2

PermToolNames == {"read", "write", "shell"}

PermArguments ==
    {<<>>, [path |-> VString], [path |-> VString, content |-> VString]}

AllowLists ==
    UNION {[D -> BOOLEAN] : D \in SUBSET {"read", "write"}}

NoRequest == [ToolName |-> "", Arguments |-> <<>>]

NoResponse == MkResponse(FALSE, <<"none">>)

PermInit ==
    /\ ppc = "ready"
    /\ pAuto \in AllowLists
    /\ pHandler \in {"nil", "ui"}
    /\ pReq = NoRequest
    /\ pResp = NoResponse
    /\ pHandlerReq = NoRequest
    /\ pHandlerResp = NoResponse
    /\ pHandlerCalls = 0
    /\ pServed = 0

PermIdle ==
    /\ ppc = "off"
    /\ pAuto = DefaultAutoApprove
    /\ pHandler = "nil"
    /\ pReq = NoRequest
    /\ pResp = NoResponse
    /\ pHandlerReq = NoRequest
    /\ pHandlerResp = NoResponse
    /\ pHandlerCalls = 0
    /\ pServed = 0

\* RequestPermission is entered with a request: the auto-approve and default
\* branches return at once, the handler branch calls the handler and blocks.
PermRequest ==
    /\ ppc = "ready"
    /\ pServed < MaxPermRequests
    /\ \E name \in PermToolNames, args \in PermArguments :
         LET req == [ToolName |-> name, Arguments |-> args]
             route == PermissionRoute(pAuto, pHandler, name)
         IN /\ pReq' = req
            /\ IF route = "handler"
               THEN /\ ppc' = "asking"
                    /\ pHandlerReq' = req
                    /\ pHandlerCalls' = 1
                    /\ pResp' = NoResponse
               ELSE /\ ppc' = "returned"
                    /\ pHandlerReq' = NoRequest
                    /\ pHandlerCalls' = 0
                    /\ pResp' = ImmediateResponse(route)
    /\ pHandlerResp' = NoResponse
    /\ pServed' = pServed + 1
    /\ UNCHANGED <<pAuto, pHandler>>

\* The handler returns its answer and RequestPermission returns it.
PermHandlerAnswers ==
    /\ ppc = "asking"
    /\ \E r \in [Granted : BOOLEAN, AlternateAction : {<<>>, AlternateText}] :
         /\ pHandlerResp' = r
         /\ pResp' = ForwardedResponse(r)
    /\ ppc' = "returned"
    /\ UNCHANGED <<pAuto, pHandler, pReq, pHandlerReq, pHandlerCalls, pServed>>

\* The caller takes the response; the manager is ready for the next request.
PermNextRequest ==
    /\ ppc = "returned"
    /\ ppc' = "ready"
    /\ UNCHANGED <<pAuto, pHandler, pReq, pResp, pHandlerReq, pHandlerResp,
                   pHandlerCalls, pServed>>

(***************************************************************************)
(* The agent loop.  driver says which loop runs and who dispatches:        *)
(*   "interactive"  llm.Agent.Run under InteractiveAgent.Run, tool calls   *)
(*                  dispatched by InteractiveAgent.handleToolCalls;        *)
(*   "subagent"     llm.Agent.Run started by the agent tool, tool calls    *)
(*                  dispatched by its callback through PermissionManager;  *)
(*   "session"      Session.continueConversation and handleToolCalls.      *)
(* pc is the position of the loop's thread: idle (no turn in flight), loop *)
(* (head of the request loop), awaiting (transport call in flight),        *)
(* dispatch (head of the tool loop), callback (entering the tool-call      *)
(* callback), asking (permission prompt open), executing (tool body        *)
(* running), returning (the loop has returned to its caller).              *)
(* execLog lists the calls whose tool body was invoked, permLog the        *)
(* permission decisions obtained, processed counts the tool calls whose    *)
(* loop iteration completed.                                               *)
(* cancelled is the state of the context of the top-level turn, atCall    *)
(* what the history and the logs were when Run was called, lastInterrupt   *)
(* what the latest Interrupt returned, lastFinish the finish reason of the *)
(* latest response (error / empty when there was none), reqMessages the    *)
(* messages of the latest request.                                         *)
(***************************************************************************)
MaxTurns == 1

AgentIdle ==
    /\ driver = "none"
    /\ askSet = FALSE
    /\ cfgAuto = DefaultAutoApprove
    /\ cfgHandler = "nil"
    /\ Messages = <<>>
    /\ pc = "off"
    /\ cancelHeld = FALSE
    /\ cancelled = FALSE
    /\ batch = <<>>
    /\ idx = 0
    /\ requests = 0
    /\ nextId = 1
    /\ processed = 0
    /\ lastErr = NoErr
    /\ lastMsg = NoMsg
    /\ execLog = <<>>
    /\ permLog = <<>>
    /\ turns = 0
    /\ lastInterrupt = "none"
    /\ lastFinish = "none"
    /\ reqMessages = <<>>
    /\ atCall = [Messages |-> <<>>, requests |-> 0, execLog |-> <<>>,
                 permLog |-> <<>>, cancelled |-> FALSE]
    /\ parentMessages = <<>>
    /\ outputBuilder = <<>>

\* NewAgent / NewSession: the history starts with the system message.  The
\* agent tool adds the task and runs its agent at once, inside a tool call
\* of the parent's turn, whose cancel function the parent holds meanwhile.
AgentInit ==
    /\ driver \in {"interactive", "subagent", "session"}
    /\ askSet \in (IF driver = "interactive" THEN BOOLEAN ELSE {FALSE})
    /\ cfgAuto \in (IF driver = "subagent" THEN {DefaultAutoApprove, <<>>}
                    ELSE {DefaultAutoApprove})
    /\ cfgHandler \in (IF driver = "subagent" THEN {"nil", "ui"} ELSE {"nil"})
    /\ Messages = IF driver = "subagent"
                  THEN <<Msg("system", AgentPromptText, <<>>, ""),
                         Msg("user", UserText, <<>>, "")>>
                  ELSE <<Msg("system", SystemPromptText, <<>>, "")>>
    /\ pc = IF driver = "subagent" THEN "loop" ELSE "idle"
    /\ cancelHeld = (driver = "subagent")
    /\ cancelled = FALSE
    /\ batch = <<>>
    /\ idx = 0
    /\ requests = 0
    /\ nextId = 1
    /\ processed = 0
    /\ lastErr = NoErr
    /\ lastMsg = NoMsg
    /\ execLog = <<>>
    /\ permLog = <<>>
    /\ turns = IF driver = "subagent" THEN 1 ELSE 0
    /\ lastInterrupt = "none"
    /\ lastFinish = "none"
    /\ reqMessages = <<>>
    /\ atCall = [Messages |-> Messages, requests |-> 0, execLog |-> <<>>,
                 permLog |-> <<>>, cancelled |-> FALSE]
    /\ parentMessages = IF driver = "subagent" THEN ParentHistory ELSE <<>>
    /\ outputBuilder = IF driver = "subagent" THEN OutTask ELSE <<>>

\* The tool calls the driver's model is let to emit: the sub-agent's model
\* also calls the definition tool, which is a plain valid call for the
\* other drivers; under a parent, the calls of a delegation.
SampledCalls ==
    IF parentPc # "off" THEN DelegationSamples
    ELSE IF driver = "subagent" THEN CallSamples \cup {DefinitionCall}
    ELSE CallSamples

\* The registry the driver's dispatcher looks tools up in.
Registry ==
    IF driver = "subagent" THEN FilteredRegistry(RegistryAtExecute)
    ELSE MainRegistry

Call == batch[idx]

\* Whether the context that the driver's Run is given is cancelled.  The
\* agent tool runs its agent under `ctx := context.Background()`, which the
\* cancel function of the parent's turn does not reach.
CtxDone == IF driver = "subagent" THEN FALSE ELSE cancelled

Decision(granted, alternate, by) ==
    [ID |-> Call.ID, Granted |-> granted, AlternateAction |-> alternate, By |-> by]

\* The loop returns err (and, from Agent.Run, msg) to its caller.
Return(err, msg) ==
    /\ pc' = "returning"
    /\ lastErr' = err
    /\ lastMsg' = msg

\* Mutant of AfterAnswer: the tool loop is left after its first call.
AfterAnswer_LeaveEarly(i, n) == "loop"

\* `for _, toolCall := range toolCalls`: after call i of n the tool loop
\* takes the next call, or returns to the request loop after the last one.
AfterAnswer(i, n) == IF i < n THEN "dispatch" ELSE "loop"

\* The iteration for the current call ends: its tool-role message is
\* appended and the tool loop goes on.
Answer(content) ==
    /\ Messages' = Append(Messages, ToolMessage(content, Call))
    /\ processed' = processed + 1
    /\ idx' = idx + 1
    /\ pc' = AfterAnswer(idx, Len(batch))
    /\ UNCHANGED <<lastErr, lastMsg>>

\* Agent.handleToolCalls takes what the callback returned: an error ends
\* the Run, a result becomes the tool-role message of the call.
Deliver(r) ==
    IF r.err # NoErr
    THEN /\ Return(WrapHandling(WrapToolCall(r.err)), NoMsg)
         /\ UNCHANGED <<Messages, processed, idx>>
    ELSE Answer(r.result)

\* tool.Run(args): Validate, then either the validation error comes back as
\* the call's result or Execute is entered.
RunTool ==
    \E o \in ToolRunOutcomes(Registry[Call.Name], Call.Arguments.val) :
        IF o.executes
        THEN /\ execLog' = Append(execLog, Call.ID)
             /\ pc' = "executing"
             /\ UNCHANGED <<Messages, processed, idx, lastErr, lastMsg>>
        ELSE /\ IF driver = "session"
                THEN Answer(ExecErrorText(Call.Name, o.err))
                ELSE Deliver(ExecutionFailure(Call.Name, o.err))
             /\ UNCHANGED execLog

\* The state a Run is called in: the history, and what was sent, invoked
\* and decided so far; c says whether the context it is given is cancelled.
Snapshot(msgs, c) ==
    [Messages |-> msgs, requests |-> requests, execLog |-> execLog,
     permLog |-> permLog, cancelled |-> c]

\* A turn of the interactive agent: the caller, after a first or a
\* successful call (after a failed one see RetryRun), adds the user's
\* message and calls InteractiveAgent.Run with a context of its own,
\* cancelled or not; Run derives the turn's context from it, stores its
\* cancel function and enters Agent.Run.
InteractiveTurn ==
    /\ driver = "interactive"
    /\ pc = "idle"
    /\ lastInterrupt # "panic"
    /\ lastErr = NoErr
    /\ turns < MaxTurns
    /\ turns' = turns + 1
    /\ Messages' = Append(Messages, Msg("user", UserText, <<>>, ""))
    /\ cancelHeld' = TRUE
    /\ lastInterrupt' = "none"
    /\ \E parentCancelled \in BOOLEAN :
         /\ cancelled' = parentCancelled
         /\ atCall' = Snapshot(Messages', parentCancelled)
    /\ pc' = "loop"
    /\ batch' = <<>>
    /\ idx' = 0
    /\ lastErr' = NoErr
    /\ lastFinish' = "none"
    /\ reqMessages' = <<>>
    /\ lastMsg' = NoMsg
    /\ UNCHANGED <<requests, nextId, processed, execLog, permLog,
                   parentMessages, outputBuilder>>

\* The caller of InteractiveAgent.Run calls it again after it returned an
\* error, with nothing added to the history.
RetryRun ==
    /\ driver = "interactive"
    /\ pc = "idle"
    /\ lastErr # NoErr
    /\ lastInterrupt # "panic"
    /\ cancelHeld' = TRUE
    /\ lastInterrupt' = "none"
    /\ \E parentCancelled \in BOOLEAN :
         /\ cancelled' = parentCancelled
         /\ atCall' = Snapshot(Messages, parentCancelled)
    /\ pc' = "loop"
    /\ batch' = <<>>
    /\ idx' = 0
    /\ lastErr' = NoErr
    /\ lastFinish' = "none"
    /\ reqMessages' = <<>>
    /\ lastMsg' = NoMsg
    /\ UNCHANGED <<Messages, turns, requests, nextId, processed, execLog, permLog,
                   parentMessages, outputBuilder>>

\* What InteractiveAgent.Interrupt returns: whether a cancel function was
\* held.
InterruptReturn(held) == IF held THEN "true" ELSE "false"

\* InteractiveAgent.Interrupt from another thread: with a cancel function
\* held the context of the (parent's) turn is cancelled, with none nothing
\* happens.  lastInterrupt records what the latest call since the start of
\* the turn returned; a repeated call that returns the same value and cancels
\* nothing new leaves the state as it is.
Interrupt ==
    /\ driver \in {"interactive", "subagent"}
    /\ lastInterrupt # "panic"
    /\ InterruptReturn(cancelHeld) # lastInterrupt \/ (cancelHeld /\ ~cancelled)
    /\ lastInterrupt' = InterruptReturn(cancelHeld)
    /\ cancelled' = (cancelled \/ cancelHeld)
    /\ UNCHANGED <<Messages, pc, cancelHeld, batch, idx, requests, nextId,
                   processed, lastErr, lastMsg, execLog, permLog, turns, lastFinish, reqMessages, atCall,
                   parentMessages, outputBuilder>>

\* Interrupt on another thread overlaps the return of InteractiveAgent.Run:
\* its test `ia.cancelFunc != nil` reads the field before Run clears it and
\* its call `ia.cancelFunc()` comes after.  The field is read and written
\* with no synchronisation, so the call uses either the value of the test
\* (the cancel function of the turn that has just ended) or the cleared
\* field, and calling a nil function panics.
InterruptRaceOutcomes == {"true", "panic"}

InterruptDuringReturn ==
    /\ driver = "interactive"
    /\ pc = "returning"
    /\ cancelHeld
    /\ lastInterrupt # "panic"
    /\ \E o \in InterruptRaceOutcomes :
         /\ lastInterrupt' = o
         /\ cancelled' = (cancelled \/ o = "true")
    /\ pc' = "idle"
    /\ cancelHeld' = FALSE
    /\ UNCHANGED <<Messages, batch, idx, requests, nextId, processed, lastErr,
                   lastMsg, execLog, permLog, turns, lastFinish, reqMessages, atCall,
                   parentMessages, outputBuilder>>

\* Mutant of RequestMessages: only the messages of the latest round are
\* sent.
RequestMessages_LatestOnly(msgs) == <<msgs[Len(msgs)]>>

\* Mutant of DoneAtLoopHead: the check at the head of the loop is left out.
DoneAtLoopHead_Skipped(ctxCancelled) == FALSE

\* The messages of the request Run builds: `Messages: a.Messages`, the whole
\* history.
RequestMessages(msgs) == msgs

\* `select { case <-ctx.Done(): ... default: }` at the head of Run's loop.
DoneAtLoopHead(ctxCancelled) == ctxCancelled

\* Agent.Run, head of the for loop: the cancellation check, then the request
\* is built from the history and handed to the transport.
AgentLoopHead ==
    /\ driver \in {"interactive", "subagent"}
    /\ pc = "loop"
    /\ IF DoneAtLoopHead(CtxDone)
       THEN /\ Return(ErrInterrupted, NoMsg)
            /\ UNCHANGED <<requests, reqMessages>>
       ELSE /\ requests < MaxRequests
            /\ requests' = requests + 1
            /\ reqMessages' = RequestMessages(Messages)
            /\ pc' = "awaiting"
            /\ UNCHANGED <<lastErr, lastMsg>>
    /\ UNCHANGED <<Messages, cancelHeld, cancelled, batch, idx, nextId,
                   processed, execLog, permLog, turns, lastInterrupt,
                   lastFinish, atCall,
                   parentMessages, outputBuilder>>

\* Mutant of TransportFailure: the context is not looked at.
TransportFailure_NoCtxCheck(ctxCancelled) == ErrAPI

\* The error of a failed transport call: `if ctx.Err() != nil` it is the
\* interruption, else the API error wrapped.
TransportFailure(ctxCancelled) == IF ctxCancelled THEN ErrInterrupted ELSE ErrAPI

\* Agent.Run after CreateChatCompletion returns: the error branches, then the
\* assistant message is appended and the finish reason decides.
AgentResponse ==
    /\ driver \in {"interactive", "subagent"}
    /\ pc = "awaiting"
    /\ \E r \in ModelOutcomes(nextId, SampledCalls) :
         LET message == Msg("assistant", AssistantText, r.ToolCalls, "") IN
         /\ lastFinish' = (IF r.kind = "choice" THEN r.FinishReason ELSE r.kind)
         /\ IF r.kind = "error"
            THEN /\ Return(TransportFailure(CtxDone), NoMsg)
                 /\ UNCHANGED <<Messages, batch, idx, nextId>>
            ELSE IF r.kind = "empty"
            THEN /\ Return(ErrNoChoices, NoMsg)
                 /\ UNCHANGED <<Messages, batch, idx, nextId>>
            ELSE /\ nextId' = nextId + Len(r.ToolCalls)
                 /\ IF r.FinishReason = "tool_calls" /\ Len(r.ToolCalls) > 0
                    THEN /\ Messages' = Append(Messages, message)
                         /\ batch' = r.ToolCalls
                         /\ idx' = 1
                         /\ pc' = "dispatch"
                         /\ UNCHANGED <<lastErr, lastMsg>>
                    ELSE IF r.FinishReason = "stop"
                    THEN /\ Messages' = Append(Messages, message)
                         /\ Return(NoErr, message)
                         /\ UNCHANGED <<batch, idx>>
                    ELSE IF r.FinishReason = "length"
                    THEN /\ Messages' = Append(Append(Messages, message),
                                               Msg("user", ContinueText, <<>>, ""))
                         /\ pc' = "loop"
                         /\ UNCHANGED <<batch, idx, lastErr, lastMsg>>
                    ELSE /\ Messages' = Append(Messages, message)
                         /\ pc' = "loop"
                         /\ UNCHANGED <<batch, idx, lastErr, lastMsg>>
    /\ outputBuilder' =
          IF driver = "subagent" /\ lastFinish' \notin {"error", "empty"}
          THEN outputBuilder \o OutAgentMessage(AssistantText)
          ELSE outputBuilder
    /\ UNCHANGED <<cancelHeld, cancelled, requests, processed, execLog, permLog,
                   turns, lastInterrupt, reqMessages, atCall,
                   parentMessages>>

\* Agent.handleToolCalls, head of the loop over the batch: the cancellation
\* check and the parse of the raw arguments.
AgentDispatch ==
    /\ driver \in {"interactive", "subagent"}
    /\ pc = "dispatch"
    /\ IF CtxDone
       THEN /\ Return(WrapHandling(ErrToolInterrupted), NoMsg)
            /\ UNCHANGED <<Messages, processed, idx>>
       ELSE IF ~Call.Arguments.ok
       THEN Answer(AgentParseErrorText(Call.Name))
       ELSE /\ pc' = "callback"
            /\ UNCHANGED <<Messages, processed, idx, lastErr, lastMsg>>
    /\ UNCHANGED <<cancelHeld, cancelled, batch, requests, nextId, execLog,
                   permLog, turns, lastInterrupt, lastFinish, reqMessages, atCall,
                   parentMessages, outputBuilder>>

\* InteractiveAgent.handleToolCalls up to the confirmation prompt: the
\* cancellation check, the registry lookup, and the prompt when a
\* confirmation callback is set; without one the tool runs unasked.
InteractiveCallback ==
    /\ driver = "interactive"
    /\ pc = "callback"
    /\ IF CtxDone
       THEN /\ Deliver(CallbackReturn(<<>>, ErrToolInterrupted))
            /\ UNCHANGED execLog
       ELSE IF Call.Name \notin DOMAIN Registry
       THEN /\ Deliver(CallbackReturn(NotFoundText(Call.Name), NoErr))
            /\ UNCHANGED execLog
       ELSE IF askSet
       THEN /\ pc' = "asking"
            /\ UNCHANGED <<Messages, processed, idx, lastErr, lastMsg, execLog>>
       ELSE RunTool
    /\ UNCHANGED <<cancelHeld, cancelled, batch, requests, nextId, permLog,
                   turns, lastInterrupt, lastFinish, reqMessages, atCall,
                   parentMessages, outputBuilder>>

\* AskToolCallConfirmation returns the human's answer: the tool runs, or the
\* rejection text with the alternate instruction is the call's result.
InteractiveAnswer ==
    /\ driver = "interactive"
    /\ pc = "asking"
    /\ \E a \in HumanAnswers :
         /\ permLog' = Append(permLog, Decision(a.Granted, a.AlternateAction, "ask"))
         /\ IF a.Granted
            THEN RunTool
            ELSE /\ Deliver(CallbackReturn(InteractiveDenial(a.AlternateAction), NoErr))
                 /\ UNCHANGED execLog
    /\ UNCHANGED <<cancelHeld, cancelled, batch, requests, nextId, turns,
                   lastInterrupt, lastFinish, reqMessages, atCall,
                   parentMessages, outputBuilder>>

\* What the step of the agent tool's callback that is being taken writes to
\* the output builder: nothing when it is interrupted or a prompt opens;
\* the lookup failure when no decision was asked for; else the heading of
\* the call, followed by the denial, or by the error when tool.Run returns
\* one at once.
CallbackOutput ==
    IF pc' \in {"asking", "returning"} THEN <<>>
    ELSE IF permLog' = permLog THEN OutNotFound(Call.Name)
    ELSE OutToolCall(Call.Name) \o
         (IF ~permLog'[Len(permLog')].Granted THEN OutDenied
          ELSE IF pc' = "executing" THEN <<>>
          ELSE OutToolError(Messages'[Len(Messages')].Content))

\* The callback of the agent tool up to the permission decision: the
\* cancellation check, the lookup in the filtered registry, and
\* PermissionManager.RequestPermission, which answers at once or asks the
\* handler.
SubagentCallback ==
    /\ driver = "subagent"
    /\ pc = "callback"
    /\ IF CtxDone
       THEN /\ Deliver(CallbackReturn(<<>>, ErrToolInterrupted))
            /\ UNCHANGED <<execLog, permLog>>
       ELSE IF Call.Name \notin DOMAIN Registry
       THEN /\ Deliver(CallbackReturn(NotFoundText(Call.Name), NoErr))
            /\ UNCHANGED <<execLog, permLog>>
       ELSE LET route == PermissionRoute(cfgAuto, cfgHandler, Call.Name)
                resp == ImmediateResponse(route) IN
            IF route = "handler"
            THEN /\ pc' = "asking"
                 /\ UNCHANGED <<Messages, processed, idx, lastErr, lastMsg,
                                execLog, permLog>>
            ELSE /\ permLog' = Append(permLog,
                                  Decision(resp.Granted, resp.AlternateAction, route))
                 /\ IF resp.Granted
                    THEN RunTool
                    ELSE /\ Deliver(CallbackReturn(SubagentDenial(resp.AlternateAction),
                                                   NoErr))
                         /\ UNCHANGED execLog
    /\ outputBuilder' = outputBuilder \o CallbackOutput
    /\ UNCHANGED <<cancelHeld, cancelled, batch, requests, nextId, turns,
                   lastInterrupt, lastFinish, reqMessages, atCall,
                   parentMessages>>

\* The permission handler returns the human's answer to the agent tool's
\* callback.
SubagentAnswer ==
    /\ driver = "subagent"
    /\ pc = "asking"
    /\ \E a \in HumanAnswers :
         LET resp == ForwardedResponse(a) IN
         /\ permLog' = Append(permLog,
                              Decision(resp.Granted, resp.AlternateAction, "handler"))
         /\ IF resp.Granted
            THEN RunTool
            ELSE /\ Deliver(CallbackReturn(SubagentDenial(resp.AlternateAction), NoErr))
                 /\ UNCHANGED execLog
    /\ outputBuilder' = outputBuilder \o CallbackOutput
    /\ UNCHANGED <<cancelHeld, cancelled, batch, requests, nextId, turns,
                   lastInterrupt, lastFinish, reqMessages, atCall,
                   parentMessages>>

\* The tool body returns to the callback, which turns an error into result
\* text; Agent.handleToolCalls appends the result as the tool-role message.
AgentToolReturns ==
    /\ driver \in {"interactive", "subagent"}
    /\ pc = "executing"
    /\ \E failed \in BOOLEAN :
         /\ Deliver(IF failed THEN ExecutionFailure(Call.Name, ToolFailureText)
                    ELSE CallbackReturn(ToolOutput(Call.Name), NoErr))
         /\ outputBuilder' =
               IF driver # "subagent" THEN outputBuilder
               ELSE IF failed
               THEN outputBuilder \o
                    OutToolError(ExecErrorText(Call.Name, ToolFailureText))
               ELSE outputBuilder \o OutToolResult(ToolOutput(Call.Name))
    /\ UNCHANGED <<cancelHeld, cancelled, batch, requests, nextId, execLog,
                   permLog, turns, lastInterrupt, lastFinish, reqMessages, atCall,
                   parentMessages>>

\* Session.Start reads a line that is no command: the user's message is
\* appended and processUserMessage stores the cancel function of a fresh
\* context and enters continueConversation.  The locals and the results of
\* the previous call are gone.
SessionTurn ==
    /\ driver = "session"
    /\ pc = "idle"
    /\ turns < MaxTurns
    /\ turns' = turns + 1
    /\ Messages' = Append(Messages, Msg("user", UserText, <<>>, ""))
    /\ cancelHeld' = TRUE
    /\ cancelled' = FALSE
    /\ atCall' = Snapshot(Messages', FALSE)
    /\ pc' = "loop"
    /\ batch' = <<>>
    /\ idx' = 0
    /\ lastErr' = NoErr
    /\ lastFinish' = "none"
    /\ reqMessages' = <<>>
    /\ lastMsg' = NoMsg
    /\ UNCHANGED <<requests, nextId, processed, execLog, permLog, lastInterrupt,
                   parentMessages, outputBuilder>>

\* Session.continueConversation up to the transport call: the cancellation
\* check, then the request is built from the history and sent.
SessionRequest ==
    /\ driver = "session"
    /\ pc = "loop"
    /\ IF cancelled
       THEN /\ Return(ErrInterrupted, NoMsg)
            /\ UNCHANGED <<requests, reqMessages>>
       ELSE /\ requests < MaxRequests
            /\ requests' = requests + 1
            /\ reqMessages' = RequestMessages(Messages)
            /\ pc' = "awaiting"
            /\ UNCHANGED <<lastErr, lastMsg>>
    /\ UNCHANGED <<Messages, cancelHeld, cancelled, batch, idx, nextId,
                   processed, execLog, permLog, turns, lastInterrupt,
                   lastFinish, atCall,
                   parentMessages, outputBuilder>>

\* Session.continueConversation after the transport call returns: the error
\* branches, then the assistant message is appended; tool calls are handled,
\* every other finish reason returns to the caller.
SessionResponse ==
    /\ driver = "session"
    /\ pc = "awaiting"
    /\ \E r \in ModelOutcomes(nextId, SampledCalls) :
         LET message == Msg("assistant", AssistantText, r.ToolCalls, "") IN
         /\ lastFinish' = (IF r.kind = "choice" THEN r.FinishReason ELSE r.kind)
         /\ IF r.kind = "error"
            THEN /\ Return(TransportFailure(cancelled), NoMsg)
                 /\ UNCHANGED <<Messages, batch, idx, nextId>>
            ELSE IF r.kind = "empty"
            THEN /\ Return(ErrNoChoices, NoMsg)
                 /\ UNCHANGED <<Messages, batch, idx, nextId>>
            ELSE /\ nextId' = nextId + Len(r.ToolCalls)
                 /\ Messages' = Append(Messages, message)
                 /\ IF r.FinishReason = "tool_calls" /\ Len(r.ToolCalls) > 0
                    THEN /\ batch' = r.ToolCalls
                         /\ idx' = 1
                         /\ pc' = "dispatch"
                         /\ UNCHANGED <<lastErr, lastMsg>>
                    ELSE /\ Return(NoErr, NoMsg)
                         /\ UNCHANGED <<batch, idx>>
    /\ UNCHANGED <<cancelHeld, cancelled, requests, processed, execLog, permLog,
                   turns, lastInterrupt, reqMessages, atCall,
                   parentMessages, outputBuilder>>

\* Session.handleToolCalls, one iteration up to tool.Run: the cancellation
\* check, the parse of the arguments, the registry lookup, and the call of
\* the tool, which no permission decision precedes.
SessionDispatch ==
    /\ driver = "session"
    /\ pc = "dispatch"
    /\ IF cancelled
       THEN /\ Return(ErrToolInterrupted, NoMsg)
            /\ UNCHANGED <<Messages, processed, idx, execLog>>
       ELSE IF ~Call.Arguments.ok
       THEN /\ Answer(SessionParseErrorText(Call.Name))
            /\ UNCHANGED execLog
       ELSE IF Call.Name \notin DOMAIN Registry
       THEN /\ Answer(NotFoundText(Call.Name))
            /\ UNCHANGED execLog
       ELSE RunTool
    /\ UNCHANGED <<cancelHeld, cancelled, batch, requests, nextId, permLog,
                   turns, lastInterrupt, lastFinish, reqMessages, atCall,
                   parentMessages, outputBuilder>>

\* The tool body returns to Session.handleToolCalls, which appends the
\* result or the error text as the tool-role message.
SessionToolReturns ==
    /\ driver = "session"
    /\ pc = "executing"
    /\ \E failed \in BOOLEAN :
         Answer(IF failed THEN ExecErrorText(Call.Name, ToolFailureText)
                ELSE ToolOutput(Call.Name))
    /\ UNCHANGED <<cancelHeld, cancelled, batch, requests, nextId, execLog,
                   permLog, turns, lastInterrupt, lastFinish, reqMessages, atCall,
                   parentMessages, outputBuilder>>

\* The loop has returned: InteractiveAgent.Run (and processUserMessage)
\* clears the stored cancel function and returns to its caller; the agent
\* tool returns its report to the parent's callback, inside the parent's
\* turn, and the parent's handleToolCalls appends it as the tool-role
\* message of the delegating call.
\* Mutant of HeldAfterRun: the field is not cleared.
HeldAfterRun_Kept(d) == TRUE

\* `ia.cancelFunc = nil` / `s.cancelFunc = nil` after the loop has returned;
\* the parent of a sub-agent is still in its turn and keeps its own.
HeldAfterRun(d) == d = "subagent"

RunReturns ==
    /\ pc = "returning"
    /\ pc' = "idle"
    /\ cancelHeld' = HeldAfterRun(driver)
    /\ parentMessages' =
          IF driver = "subagent"
          THEN Append(parentMessages,
                      ToolMessage(AgentToolReport(lastErr, outputBuilder, lastMsg),
                                  DelegatingCall))
          ELSE parentMessages
    /\ UNCHANGED <<Messages, cancelled, batch, idx, requests, nextId, processed,
                   lastErr, lastMsg, execLog, permLog, turns, lastInterrupt,
                   lastFinish, reqMessages, atCall, outputBuilder>>

(***************************************************************************)
(* Delegation: a parent agent loop whose model calls the agent tool, and   *)
(* the sub-agent that each call of the tool creates and runs.  The parent  *)
(* is the same Agent.Run; its own tools run in one step.  The sub-agent is *)
(* the agent-tool driver of the loop above, started anew at every spawn;   *)
(* the bounds on its requests and calls span all spawns.  spawnFirstId is  *)
(* the number of the first tool call the model of the current sub-agent    *)
(* can make.  When Execute returns its locals are gone; the history of the *)
(* agent it made stays in Messages until the next spawn replaces it.       *)
(***************************************************************************)
MaxParentRequests == 2

MaxParentCalls == 2

ParentIdOf(n) == <<"parent_1", "parent_2", "parent_3", "parent_4", "parent_5">>[n]

ParentBatches(first, n) ==
    {[i \in 1..n |-> [ID |-> ParentIdOf(first + i - 1), Name |-> c[i].Name,
                      Arguments |-> c[i].Arguments]] :
        c \in [1..n -> DelegationSamples]}

\* What the parent's request can return: an error, a final message, or a
\* batch of tool calls within the call budget.
ParentOutcomes(first) ==
    LET left == MaxParentCalls - (first - 1) IN
    {[kind |-> k, ToolCalls |-> <<>>] : k \in {"error", "stop"}}
    \cup {[kind |-> "tool_calls", ToolCalls |-> b] :
            b \in UNION {ParentBatches(first, n) : n \in 1..left}}

\* Mutant of SpawnMessages: the agent tool keeps one agent and adds each
\* task to its history.
SpawnMessages_Reuse(previous) ==
    IF previous = <<>>
    THEN <<Msg("system", AgentPromptText, <<>>, ""), Msg("user", UserText, <<>>, "")>>
    ELSE Append(previous, Msg("user", UserText, <<>>, ""))

\* llm.NewAgent(..., agentPrompt, ...) and agent.AddMessage("user", prompt)
\* in Execute: the history of the agent of this call.
SpawnMessages(previous) ==
    <<Msg("system", AgentPromptText, <<>>, ""), Msg("user", UserText, <<>>, "")>>

\* Mutant of ParentDuringExecute: the parent's tool loop goes on while the
\* sub-agent runs.
ParentDuringExecute_GoesOn(i, n) == AfterAnswer(i, n)

\* Where the parent's loop is while Execute runs the sub-agent: inside the
\* callback of call i, which has not returned.
ParentDuringExecute(i, n) == "delegating"

\* Mutant of ExecuteReturn: the error of the sub-agent's Run is returned as
\* the error of Execute.
ExecuteReturn_Error(err, out, final) ==
    IF err # NoErr THEN CallbackReturn(<<>>, err)
    ELSE CallbackReturn(AgentToolReport(err, out, final), NoErr)

\* What Execute returns after agent.Run: text, and never an error.
ExecuteReturn(err, out, final) ==
    CallbackReturn(AgentToolReport(err, out, final), NoErr)

ParentCall == parentBatch[parentIdx]

DelIdle ==
    /\ parentPc = "off"
    /\ parentBatch = <<>>
    /\ parentIdx = 0
    /\ parentRequests = 0
    /\ parentNextId = 1
    /\ parentErr = NoErr
    /\ spawns = 0
    /\ spawnFirstId = 1

\* The parent's turn has begun; no sub-agent exists.
DelInit ==
    /\ driver = "subagent"
    /\ askSet = FALSE
    /\ cfgAuto \in {DefaultAutoApprove, <<>>}
    /\ cfgHandler = "ui"
    /\ Messages = <<>>
    /\ pc = "idle"
    /\ cancelHeld = TRUE
    /\ cancelled = FALSE
    /\ batch = <<>>
    /\ idx = 0
    /\ requests = 0
    /\ nextId = 1
    /\ processed = 0
    /\ lastErr = NoErr
    /\ lastMsg = NoMsg
    /\ execLog = <<>>
    /\ permLog = <<>>
    /\ turns = 0
    /\ lastInterrupt = "none"
    /\ lastFinish = "none"
    /\ reqMessages = <<>>
    /\ atCall = [Messages |-> <<>>, requests |-> 0, execLog |-> <<>>,
                 permLog |-> <<>>, cancelled |-> FALSE]
    /\ parentMessages = <<Msg("system", SystemPromptText, <<>>, ""),
                          Msg("user", UserText, <<>>, "")>>
    /\ outputBuilder = <<>>
    /\ parentPc = "loop"
    /\ parentBatch = <<>>
    /\ parentIdx = 0
    /\ parentRequests = 0
    /\ parentNextId = 1
    /\ parentErr = NoErr
    /\ spawns = 0
    /\ spawnFirstId = 1

\* Agent.Run of the parent builds and sends a request.
ParentRequest ==
    /\ parentPc = "loop"
    /\ parentRequests < MaxParentRequests
    /\ parentRequests' = parentRequests + 1
    /\ parentPc' = "awaiting"
    /\ UNCHANGED <<parentBatch, parentIdx, parentNextId, parentErr, spawns,
                   spawnFirstId, loopVars>>

\* Agent.Run of the parent after its request returns.
ParentResponse ==
    /\ parentPc = "awaiting"
    /\ \E r \in ParentOutcomes(parentNextId) :
         IF r.kind = "error"
         THEN /\ parentErr' = ErrAPI
              /\ parentPc' = "done"
              /\ UNCHANGED <<parentMessages, parentBatch, parentIdx, parentNextId>>
         ELSE /\ parentMessages' =
                    Append(parentMessages, Msg("assistant", AssistantText, r.ToolCalls, ""))
              /\ parentNextId' = parentNextId + Len(r.ToolCalls)
              /\ parentErr' = parentErr
              /\ IF r.kind = "stop"
                 THEN /\ parentPc' = "done"
                      /\ UNCHANGED <<parentBatch, parentIdx>>
                 ELSE /\ parentBatch' = r.ToolCalls
                      /\ parentIdx' = 1
                      /\ parentPc' = "dispatch"
    /\ UNCHANGED <<parentRequests, spawns, spawnFirstId, Messages,
                   pc, cancelHeld, cancelled, batch, idx, requests, nextId,
                   processed, lastErr, lastMsg, execLog, permLog, turns,
                   lastInterrupt, lastFinish, reqMessages, atCall, outputBuilder>>

\* The parent's tool loop at a call of a tool of its own: the tool runs and
\* its result is appended.
ParentRunsTool ==
    /\ parentPc = "dispatch"
    /\ ParentCall.Name # "agent"
    /\ parentMessages' =
          Append(parentMessages, ToolMessage(ToolOutput(ParentCall.Name), ParentCall))
    /\ parentIdx' = parentIdx + 1
    /\ parentPc' = AfterAnswer(parentIdx, Len(parentBatch))
    /\ UNCHANGED <<parentBatch, parentRequests, parentNextId, parentErr, spawns,
                   spawnFirstId, Messages, pc, cancelHeld,
                   cancelled, batch, idx, requests, nextId, processed, lastErr,
                   lastMsg, execLog, permLog, turns, lastInterrupt, lastFinish,
                   reqMessages, atCall, outputBuilder>>

\* The parent's tool loop at a call of the agent tool: Execute builds the
\* filtered registry, the output builder and a new agent, adds the task and
\* calls agent.Run.
Spawn ==
    /\ parentPc = "dispatch"
    /\ ParentCall.Name = "agent"
    /\ pc = "idle"
    /\ parentPc' = ParentDuringExecute(parentIdx, Len(parentBatch))
    /\ spawns' = spawns + 1
    /\ spawnFirstId' = nextId
    /\ Messages' = SpawnMessages(Messages)
    /\ outputBuilder' = OutTask
    /\ pc' = "loop"
    /\ batch' = <<>>
    /\ idx' = 0
    /\ lastErr' = NoErr
    /\ lastMsg' = NoMsg
    /\ lastFinish' = "none"
    /\ reqMessages' = <<>>
    /\ atCall' = Snapshot(Messages', FALSE)
    /\ UNCHANGED <<parentMessages, parentBatch, parentIdx, parentRequests,
                   parentNextId, parentErr, cancelHeld, cancelled, requests,
                   nextId, processed, execLog, permLog, turns, lastInterrupt>>

\* agent.Run has returned: Execute returns to tool.Run, tool.Run to the
\* parent's callback, which turns an error into result text, and the
\* parent's tool loop appends the result.
ExecuteReturns ==
    /\ pc = "returning"
    /\ parentPc = "delegating"
    /\ LET r == ExecuteReturn(lastErr, outputBuilder, lastMsg)
           content == IF r.err # NoErr THEN ExecErrorText("agent", r.err)
                      ELSE r.result
       IN  parentMessages' = Append(parentMessages, ToolMessage(content, ParentCall))
    /\ parentIdx' = parentIdx + 1
    /\ parentPc' = AfterAnswer(parentIdx, Len(parentBatch))
    /\ pc' = "idle"
    /\ batch' = <<>>
    /\ idx' = 0
    /\ lastErr' = NoErr
    /\ lastMsg' = NoMsg
    /\ lastFinish' = "none"
    /\ reqMessages' = <<>>
    /\ outputBuilder' = <<>>
    /\ atCall' = Snapshot(Messages, FALSE)
    /\ UNCHANGED <<parentBatch, parentRequests, parentNextId, parentErr, spawns,
                   spawnFirstId, Messages, cancelHeld, cancelled, requests,
                   nextId, processed, execLog, permLog, turns, lastInterrupt>>

(***************************************************************************)
(* The prompts of the BubbleTea UI.  The asking thread (the agent's) sets  *)
(* the flag inPrompt, receives from the unbuffered channel promptCh and    *)
(* clears the flag; the update loop of the program handles one key press   *)
(* at a time and, with the flag set, sends on promptCh.  A key press is    *)
(* tagged with the number of the prompt on display when it was made, 0     *)
(* with none; answers holds, per prompt returned, the key that answered    *)
(* it.                                                                     *)
(***************************************************************************)
MaxPrompts == 2

MaxKeys == 3

PromptKinds == {"AskPermission", "AskToolCallConfirmation"}

PromptKeys == {"enter", "esc"}

\* promptEvent{confirmed: ..., text: ""} of the key.
PromptEvent(key) == [confirmed |-> key = "enter", text |-> ""]

\* The prompt on display: the one whose flag is set.
Displayed == IF inPrompt THEN promptNo ELSE 0

UiIdle ==
    /\ askPc = "off"
    /\ inPrompt = FALSE
    /\ promptNo = 0
    /\ keys = <<>>
    /\ pressed = 0
    /\ updPc = "ready"
    /\ sending = <<>>
    /\ received = <<>>
    /\ answers = <<>>

\* newModel: no prompt, the channels empty, the program started.
UiInit ==
    /\ askPc = "idle"
    /\ inPrompt = FALSE
    /\ promptNo = 0
    /\ keys = <<>>
    /\ pressed = 0
    /\ updPc = "ready"
    /\ sending = <<>>
    /\ received = <<>>
    /\ answers = <<>>

\* AskPermission / AskToolCallConfirmation up to the receive: the flag and
\* the prompt text are set and a render is triggered.
AskPrompt ==
    /\ askPc = "idle"
    /\ promptNo < MaxPrompts
    /\ \E kind \in PromptKinds : askPc' = kind
    /\ inPrompt' = TRUE
    /\ promptNo' = promptNo + 1
    /\ UNCHANGED <<keys, pressed, updPc, sending, received, answers>>

\* The user presses Enter or Esc; the program queues the key message.
KeyPress ==
    /\ askPc # "off"
    /\ pressed < MaxKeys
    /\ \E k \in PromptKeys :
         keys' = Append(keys, [key |-> k, shown |-> Displayed])
    /\ pressed' = pressed + 1
    /\ UNCHANGED <<askPc, inPrompt, promptNo, updPc, sending, received, answers>>

\* model.Update with a key message of Enter or Esc: with the flag set it
\* enters the send on promptCh, else the key goes to the text area.
Update ==
    /\ askPc # "off"
    /\ updPc = "ready"
    /\ keys # <<>>
    /\ keys' = Tail(keys)
    /\ IF inPrompt
       THEN /\ updPc' = "sending"
            /\ sending' = <<Head(keys)>>
       ELSE UNCHANGED <<updPc, sending>>
    /\ UNCHANGED <<askPc, inPrompt, promptNo, pressed, received, answers>>

\* The unbuffered channel: the send of Update and the receive of the asking
\* thread complete together.
PromptChTransfer ==
    /\ askPc \in PromptKinds
    /\ updPc = "sending"
    /\ received' = sending
    /\ sending' = <<>>
    /\ updPc' = "ready"
    /\ askPc' = "received"
    /\ UNCHANGED <<inPrompt, promptNo, keys, pressed, answers>>

\* The asking thread after the receive: the flag is cleared, a render is
\* triggered and the answer returned.
AskReturns ==
    /\ askPc = "received"
    /\ inPrompt' = FALSE
    /\ answers' = Append(answers, [prompt |-> promptNo,
                                   shown |-> received[1].shown,
                                   confirmed |-> PromptEvent(received[1].key).confirmed,
                                   text |-> PromptEvent(received[1].key).text])
    /\ received' = <<>>
    /\ askPc' = "idle"
    /\ UNCHANGED <<promptNo, keys, pressed, updPc, sending>>

(***************************************************************************)
(* Conversation summary of the chat session: /summarize calls              *)
(* AddSummaryToContext, GetConversationSummary is the session's accessor.  *)
(* Each call is one action; the answer of the model to the summarization   *)
(* request is its input.  sumRet, sumReq and sumOutcome record the latest  *)
(* call: the summary it obtained and the error it returned, the request it *)
(* sent (<<>>: none) and how the request ended; summarizedLen is the       *)
(* length of the history when the stored summary was stored.               *)
(***************************************************************************)
MaxSessionLen == 4

MaxSummaryCalls == 3

SummaryWindow == 20

SummaryHeader == <<"Here is a summary of the conversation so far:">>

SummaryTrailer == <<"Please use this as context for your responses.">>

SummaryPromptText == <<"Your task is to create a concise summary">>

SummaryAskText == <<"Please summarize our conversation so far">>

ErrSummaryRequest == <<"failed to generate summary: ", "transport error">>

ErrNoSummary == <<"no summary generated">>

\* The content of the first choice of the summarization response; a model
\* may answer with empty content.
SummaryTexts == {<<>>, <<"summary A">>, <<"summary B">>}

SummaryOutcomes ==
    {[kind |-> "ok", Content |-> s] : s \in SummaryTexts}
        \cup {[kind |-> "error", Content |-> <<>>],
              [kind |-> "nochoices", Content |-> <<>>]}

SessionCall ==
    [ID |-> IdOf(1), Name |-> "read", Arguments |-> RawArgs([path |-> VString])]

\* The messages the session appends to its history: the user's input, the
\* model's message with or without a tool call, the message of a tool call.
SessionSamples ==
    {Msg("user", UserText, <<>>, ""),
     Msg("assistant", AssistantText, <<>>, ""),
     Msg("assistant", <<>>, <<SessionCall>>, ""),
     ToolMessage(ToolOutput("read"), SessionCall)}

\* The order the session's loop appends in: the model answers a user or a
\* tool message, a tool message answers the model's tool call, and the user
\* speaks when no tool call is open.
FollowsInSession(last, m) ==
    CASE m.Role = "tool" -> last.Role = "assistant" /\ last.ToolCalls # <<>>
      [] m.Role = "assistant" -> last.Role \in {"user", "tool"}
      [] OTHER -> last.ToolCalls = <<>>

SummaryMessage(summary) ==
    Msg("system", SummaryHeader \o summary \o SummaryTrailer, <<>>, "")

\* Mutant of NotEnoughMessages: the early return is gone.
NotEnoughMessages_Never(msgs) == FALSE

\* SummarizeMessages' early return: nothing but the system message.
NotEnoughMessages(msgs) == Len(msgs) <= 1

\* The summarization request: the instruction, the latest SummaryWindow
\* messages after the system message without the tool messages, the ask.
SummaryPrompt(msgs) ==
    LET startIdx == IF Len(msgs) - SummaryWindow > 1
                    THEN Len(msgs) - SummaryWindow ELSE 1
        recent == SubSeq(msgs, startIdx + 1, Len(msgs))
        NotTool(m) == m.Role # "tool"
    IN  <<Msg("system", SummaryPromptText, <<>>, "")>>
            \o SelectSeq(recent, NotTool)
            \o <<Msg("user", SummaryAskText, <<>>, "")>>

\* Mutant of SummaryResult: a failed request counts as an empty summary.
SummaryResult_FailureIsEmpty(o) ==
    [summary |-> o.Content, err |-> NoErr]

\* What SummarizeMessages returns for the outcome of its request.
SummaryResult(o) ==
    CASE o.kind = "error" -> [summary |-> <<>>, err |-> ErrSummaryRequest]
      [] o.kind = "nochoices" -> [summary |-> <<>>, err |-> ErrNoSummary]
      [] OTHER -> [summary |-> o.Content, err |-> NoErr]

\* SummarizeMessages on a history, with the outcome of the request if one
\* is sent.
SummarizeMessages(msgs, o) ==
    IF NotEnoughMessages(msgs)
    THEN [summary |-> <<>>, err |-> NoErr, req |-> <<>>, outcome |-> "none"]
    ELSE [summary |-> SummaryResult(o).summary, err |-> SummaryResult(o).err,
          req |-> SummaryPrompt(msgs), outcome |-> o.kind]

HasSummaryMessage(msgs) ==
    /\ Len(msgs) > 1
    /\ msgs[2].Role = "system"
    /\ Contains(msgs[2].Content, SummaryHeader)

\* The history after AddSummaryToContext has placed a summary in it.
WithSummary(msgs, summary) ==
    IF HasSummaryMessage(msgs)
    THEN [msgs EXCEPT ![2] = SummaryMessage(summary)]
    ELSE IF Len(msgs) > 1
         THEN <<msgs[1], SummaryMessage(summary)>> \o Tail(msgs)
         ELSE msgs

SumRet(op, summary, err) == [op |-> op, summary |-> summary, err |-> err]

SumIdle ==
    /\ sumPc = "off"
    /\ sMessages = <<>>
    /\ conversationSummary = <<>>
    /\ sumRet = SumRet("none", <<>>, NoErr)
    /\ sumReq = <<>>
    /\ sumOutcome = "none"
    /\ sumCalls = 0
    /\ summarizedLen = 0

\* NewSession: the history holds the system message, no summary is stored.
SumInit ==
    /\ sumPc = "ready"
    /\ sMessages = <<Msg("system", SystemPromptText, <<>>, "")>>
    /\ conversationSummary = <<>>
    /\ sumRet = SumRet("none", <<>>, NoErr)
    /\ sumReq = <<>>
    /\ sumOutcome = "none"
    /\ sumCalls = 0
    /\ summarizedLen = 0

\* A history longer than the summarization window.
LongSessionLen == SummaryWindow + 2

\* The history of n messages of a conversation without tool calls (user,
\* assistant, ...) or with one tool call in each turn (user, assistant with
\* the call, tool, assistant, ...).
History(n, withCalls) ==
    LET plain == <<Msg("user", UserText, <<>>, ""),
                   Msg("assistant", AssistantText, <<>>, "")>>
        calls == <<Msg("user", UserText, <<>>, ""),
                   Msg("assistant", <<>>, <<SessionCall>>, ""),
                   ToolMessage(ToolOutput("read"), SessionCall),
                   Msg("assistant", AssistantText, <<>>, "")>>
    IN  [i \in 1..n |->
            IF i = 1 THEN Msg("system", SystemPromptText, <<>>, "")
            ELSE IF withCalls THEN calls[((i - 2) % 4) + 1]
            ELSE plain[((i - 2) % 2) + 1]]

\* A session that has been in use: its history is of any length up to
\* LongSessionLen and no summary has been made yet.
LongInit ==
    /\ sumPc = "ready"
    /\ sMessages \in {History(n, c) : n \in 1..LongSessionLen, c \in BOOLEAN}
    /\ conversationSummary = <<>>
    /\ sumRet = SumRet("none", <<>>, NoErr)
    /\ sumReq = <<>>
    /\ sumOutcome = "none"
    /\ sumCalls = 0
    /\ summarizedLen = 0

\* s.messages = append(s.messages, ...) of the session's loop.
SessionAppend ==
    /\ sumPc = "ready"
    /\ Len(sMessages) < MaxSessionLen
    /\ \E m \in SessionSamples :
         /\ FollowsInSession(sMessages[Len(sMessages)], m)
         /\ sMessages' = Append(sMessages, m)
    /\ UNCHANGED <<sumPc, conversationSummary, sumRet, sumReq, sumOutcome,
                   sumCalls, summarizedLen>>

\* func (s *Session) AddSummaryToContext() error
AddSummaryToContext ==
    /\ sumPc = "ready"
    /\ sumCalls < MaxSummaryCalls
    /\ \E o \in SummaryOutcomes :
         LET r == SummarizeMessages(sMessages, o)
         IN  /\ sumReq' = r.req
             /\ sumOutcome' = r.outcome
             /\ IF r.err # NoErr
                THEN /\ sumRet' = SumRet("AddSummaryToContext", <<>>, r.err)
                     /\ UNCHANGED <<sMessages, conversationSummary, summarizedLen>>
                ELSE IF r.summary = <<>>
                THEN /\ sumRet' = SumRet("AddSummaryToContext", r.summary, NoErr)
                     /\ UNCHANGED <<sMessages, conversationSummary, summarizedLen>>
                ELSE /\ sMessages' = WithSummary(sMessages, r.summary)
                     /\ conversationSummary' = r.summary
                     /\ summarizedLen' = Len(sMessages')
                     /\ sumRet' = SumRet("AddSummaryToContext", r.summary, NoErr)
    /\ sumCalls' = sumCalls + 1
    /\ UNCHANGED sumPc

\* func (s *Session) GetConversationSummary() (string, error)
GetConversationSummary ==
    /\ sumPc = "ready"
    /\ sumCalls < MaxSummaryCalls
    /\ IF conversationSummary # <<>>
       THEN /\ sumRet' = SumRet("GetConversationSummary", conversationSummary, NoErr)
            /\ sumReq' = <<>>
            /\ sumOutcome' = "none"
       ELSE \E o \in SummaryOutcomes :
              LET r == SummarizeMessages(sMessages, o)
              IN  /\ sumRet' = SumRet("GetConversationSummary", r.summary, r.err)
                  /\ sumReq' = r.req
                  /\ sumOutcome' = r.outcome
    /\ sumCalls' = sumCalls + 1
    /\ UNCHANGED <<sumPc, sMessages, conversationSummary, summarizedLen>>

(***************************************************************************)
(* Tool catalog: Register, Get and ListTools on one registry, and an agent *)
(* created from it as main and NewInteractiveAgent create theirs, with the *)
(* tools that registry.ListTools() returns at that moment.  regOp names    *)
(* the latest operation, regLog the Register calls so far; getRet, listRet *)
(* and reqTools hold what the latest operation returned or built and are   *)
(* empty after any other operation.                                        *)
(***************************************************************************)
MaxRegisters == 3

\* The Register calls made: main's names and tools, and a second tool under
\* a name already used.
RegisterSamples ==
    {[name |-> "read", tool |-> ReadTool],
     [name |-> "read", tool |-> WriteTool],
     [name |-> "lsp_definition", tool |-> DefinitionTool],
     [name |-> "agent", tool |-> AgentTool]}

GetNames == {s.name : s \in RegisterSamples} \cup {"nosuch"}

\* Mutant of Registered: a name once registered keeps its first tool.
Registered_KeepFirst(registry, name, tool) ==
    [n \in DOMAIN registry \cup {name} |->
        IF n \in DOMAIN registry THEN registry[n] ELSE tool]

\* r.tools[name] = tool
Registered(registry, name, tool) ==
    [n \in DOMAIN registry \cup {name} |-> IF n = name THEN tool ELSE registry[n]]

\* tool, ok := r.tools[name]; the pointer is <<tool>>, or <<>> for nil.
Lookup(registry, name) ==
    IF name \in DOMAIN registry
    THEN [name |-> name, tool |-> <<registry[name]>>, ok |-> TRUE]
    ELSE [name |-> name, tool |-> <<>>, ok |-> FALSE]

\* The sequences that hold each element of S once.
Orderings(S) ==
    {f \in [1..Cardinality(S) -> S] : \A x \in S : \E i \in DOMAIN f : f[i] = x}

\* What ListTools can return: it appends one llm.Tool per entry while it
\* ranges over the map r.tools, and the iteration order of a Go map is not
\* specified and differs from one range statement to the next.
ListTools(registry) == Orderings(ListedTools(registry))

NoLookup == [name |-> "", tool |-> <<>>, ok |-> FALSE]

RegIdle ==
    /\ regPc = "off"
    /\ tools = <<>>
    /\ regLog = <<>>
    /\ regOp = "none"
    /\ getRet = NoLookup
    /\ listRet = <<>>
    /\ agentMade = FALSE
    /\ agentTools = <<>>
    /\ reqTools = <<>>

\* NewRegistry: an empty map; no agent yet.
RegInit ==
    /\ regPc = "ready"
    /\ tools = <<>>
    /\ regLog = <<>>
    /\ regOp = "none"
    /\ getRet = NoLookup
    /\ listRet = <<>>
    /\ agentMade = FALSE
    /\ agentTools = <<>>
    /\ reqTools = <<>>

\* func (r *Registry) Register(name string, tool *Tool)
Register ==
    /\ regPc = "ready"
    /\ Len(regLog) < MaxRegisters
    /\ \E s \in RegisterSamples :
         /\ tools' = Registered(tools, s.name, s.tool)
         /\ regLog' = Append(regLog, s)
    /\ regOp' = "Register"
    /\ getRet' = NoLookup /\ listRet' = <<>> /\ reqTools' = <<>>
    /\ UNCHANGED <<regPc, agentMade, agentTools>>

\* func (r *Registry) Get(name string) (*Tool, bool): the lookup of the
\* dispatchers.
Get ==
    /\ regPc = "ready"
    /\ \E name \in GetNames : getRet' = Lookup(tools, name)
    /\ regOp' = "Get"
    /\ listRet' = <<>> /\ reqTools' = <<>>
    /\ UNCHANGED <<regPc, tools, regLog, agentMade, agentTools>>

\* func (r *Registry) ListTools() []llm.Tool
ListToolsCall ==
    /\ regPc = "ready"
    /\ listRet' \in ListTools(tools)
    /\ regOp' = "ListTools"
    /\ getRet' = NoLookup /\ reqTools' = <<>>
    /\ UNCHANGED <<regPc, tools, regLog, agentMade, agentTools>>

\* llm.NewAgent(name, systemPrompt, registry.ListTools(), ...): the agent
\* keeps the slice it is given.
NewAgent ==
    /\ regPc = "ready"
    /\ ~agentMade
    /\ agentTools' \in ListTools(tools)
    /\ agentMade' = TRUE
    /\ regOp' = "NewAgent"
    /\ getRet' = NoLookup /\ listRet' = <<>> /\ reqTools' = <<>>
    /\ UNCHANGED <<regPc, tools, regLog>>

\* Agent.Run builds its request: Tools: a.tools.
AgentBuildsRequest ==
    /\ regPc = "ready"
    /\ agentMade
    /\ reqTools' = agentTools
    /\ regOp' = "Request"
    /\ getRet' = NoLookup /\ listRet' = <<>>
    /\ UNCHANGED <<regPc, tools, regLog, agentMade, agentTools>>

(***************************************************************************)
(* Claims about the conversation summary (SpecSummary).                    *)
(***************************************************************************)
\* A step that is a call of AddSummaryToContext.
CompactionStep ==
    sumCalls' # sumCalls /\ sumRet'.op = "AddSummaryToContext"

\* C24: after a successful compaction (the request answered with a summary)
\* the history is exactly two messages, a system message and a user message
\* that embeds the summary, and nothing of the earlier history remains.
C24_Step ==
    (CompactionStep /\ sumOutcome' = "ok" /\ sumRet'.summary # <<>>) =>
        /\ Len(sMessages') = 2
        /\ sMessages'[1].Role = "system"
        /\ sMessages'[2].Role = "user"
        /\ Contains(sMessages'[2].Content, sumRet'.summary)

C24_HistoryReplaced == [][C24_Step]_vars

\* C25: when the summarization request fails, by a transport error or by a
\* response without choices, AddSummaryToContext returns the error and the
\* messages and the stored summary are what they were before the call.
C25_Step ==
    (CompactionStep /\ sumOutcome' \in {"error", "nochoices"}) =>
        /\ sumRet'.err =
               (IF sumOutcome' = "error" THEN ErrSummaryRequest ELSE ErrNoSummary)
        /\ sMessages' = sMessages
        /\ conversationSummary' = conversationSummary
        /\ summarizedLen' = summarizedLen

C25_FailureLeavesSession == [][C25_Step]_vars

C25_Witness ==
    /\ sumRet.op = "AddSummaryToContext"
    /\ sumOutcome = "nochoices"
    /\ sumRet.err = ErrNoSummary
    /\ conversationSummary # <<>>
    /\ HasSummaryMessage(sMessages)

\* C26: AddSummaryToContext on a history of the system message alone sends
\* no summarization request and leaves the history as it is, at every call.
C26_Step ==
    (CompactionStep /\ Len(sMessages) = 1) =>
        /\ sumReq' = <<>>
        /\ sumOutcome' = "none"
        /\ sumRet'.err = NoErr
        /\ sMessages' = sMessages
        /\ conversationSummary' = conversationSummary

C26_MinimalSessionNoOp == [][C26_Step]_vars

C26_Witness ==
    /\ sumCalls = MaxSummaryCalls
    /\ sumRet.op = "AddSummaryToContext"
    /\ Len(sMessages) = 1
    /\ sumReq = <<>>

\* C36: the summarization request of a compaction holds no tool-role
\* message: it is the summarization prompt, then all messages after the
\* initial system message, tool-role messages removed and the rest in their
\* order, then the user instruction that asks for the summary.
C36_Step ==
    (CompactionStep /\ sumReq' # <<>>) =>
        LET NotTool(m) == m.Role # "tool" IN
        /\ \A i \in DOMAIN sumReq' : sumReq'[i].Role # "tool"
        /\ sumReq' = <<Msg("system", SummaryPromptText, <<>>, "")>>
                         \o SelectSeq(Tail(sMessages), NotTool)
                         \o <<Msg("user", SummaryAskText, <<>>, "")>>

C36_RequestHoldsAllButToolMessages == [][C36_Step]_vars

\* C30: GetConversationSummary generates a new summary when none is stored
\* or when messages were added after the stored one was produced, and it
\* returns the stored summary, without a request, only when it is current.
C30_Step ==
    (sumCalls' # sumCalls /\ sumRet'.op = "GetConversationSummary") =>
        IF conversationSummary = <<>> \/ Len(sMessages) > summarizedLen
        THEN sumReq' = (IF NotEnoughMessages(sMessages) THEN <<>>
                        ELSE SummaryPrompt(sMessages))
        ELSE /\ sumRet'.summary = conversationSummary
             /\ sumReq' = <<>>

C30_OutdatedSummaryRegenerated == [][C30_Step]_vars

(***************************************************************************)
(* Claims about the tool catalog (SpecRegistry).                           *)
(***************************************************************************)
Range(seq) == {seq[i] : i \in DOMAIN seq}

RegisteredNames == {regLog[i].name : i \in DOMAIN regLog}

FirstRegister(name) ==
    CHOOSE i \in DOMAIN regLog :
        regLog[i].name = name /\ \A j \in 1..(i - 1) : regLog[j].name # name

LastRegister(name) ==
    CHOOSE i \in DOMAIN regLog :
        regLog[i].name = name /\ \A j \in (i + 1)..Len(regLog) : regLog[j].name # name

\* C27: a request of the agent loop carries name, description and input
\* schema of every tool of the registry its callback dispatches against:
\* the advertised tools are the registered tools.
C27_AdvertisedIsDispatchable ==
    regOp = "Request" => Range(reqTools) = ListedTools(tools)

\* C28: ListTools returns one entry per registered tool, in the order of
\* registration (a name registered again counted at its first or at its
\* latest registration).
C28_ListedInRegistrationOrder ==
    regOp = "ListTools" =>
        /\ Range(listRet) = ListedTools(tools)
        /\ Len(listRet) = Cardinality(DOMAIN tools)
        /\ \/ \A i, j \in DOMAIN listRet :
                 i < j => FirstRegister(listRet[i].Name) < FirstRegister(listRet[j].Name)
           \/ \A i, j \in DOMAIN listRet :
                 i < j => LastRegister(listRet[i].Name) < LastRegister(listRet[j].Name)

\* C29: after any sequence of Register calls the catalog holds one tool per
\* distinct name registered, the tool of the latest Register of that name,
\* and Get returns that tool, or not-found for a name never registered.
C29_LatestRegistrationWins ==
    /\ DOMAIN tools = RegisteredNames
    /\ \A n \in DOMAIN tools : tools[n] = regLog[LastRegister(n)].tool
    /\ regOp = "Get" =>
           IF getRet.name \in RegisteredNames
           THEN /\ getRet.ok
                /\ getRet.tool = <<regLog[LastRegister(getRet.name)].tool>>
           ELSE /\ ~getRet.ok
                /\ getRet.tool = <<>>

C29_Witness ==
    /\ regOp = "Get"
    /\ getRet = [name |-> "read", tool |-> <<WriteTool>>, ok |-> TRUE]
    /\ \E i, j \in DOMAIN regLog :
          /\ i < j
          /\ regLog[i] = [name |-> "read", tool |-> ReadTool]
          /\ regLog[j] = [name |-> "read", tool |-> WriteTool]
    /\ Cardinality(DOMAIN tools) < Len(regLog)

(***************************************************************************)
(* Specifications.                                                         *)
(***************************************************************************)
\* The interactive agent without a confirmation callback, with a caller that
\* calls Run again after an error.
RetryNext ==
    \/ InteractiveTurn /\ UNCHANGED others
    \/ RetryRun /\ UNCHANGED others
    \/ Interrupt /\ UNCHANGED others
    \/ AgentLoopHead /\ UNCHANGED others
    \/ AgentResponse /\ UNCHANGED others
    \/ AgentDispatch /\ UNCHANGED others
    \/ InteractiveCallback /\ UNCHANGED others
    \/ AgentToolReturns /\ UNCHANGED others
    \/ RunReturns /\ UNCHANGED others

RetryInit ==
    AgentInit /\ driver = "interactive" /\ ~askSet /\ ValIdle /\ PermIdle
        /\ SumIdle /\ RegIdle /\ DelIdle /\ UiIdle

SpecRetry == RetryInit /\ [][RetryNext]_vars

ValNext == ValidateCall /\ UNCHANGED <<permVars, agentVars, sumVars, regVars, delVars, uiVars>>

ValSpecInit == ValInit /\ PermIdle /\ AgentIdle /\ SumIdle /\ RegIdle /\ DelIdle /\ UiIdle

SpecValidate == ValSpecInit /\ [][ValNext]_vars

PermNext ==
    \/ PermRequest /\ UNCHANGED <<valVars, agentVars, sumVars, regVars, delVars, uiVars>>
    \/ PermHandlerAnswers /\ UNCHANGED <<valVars, agentVars, sumVars, regVars, delVars, uiVars>>
    \/ PermNextRequest /\ UNCHANGED <<valVars, agentVars, sumVars, regVars, delVars, uiVars>>

PermSpecInit == PermInit /\ ValIdle /\ AgentIdle /\ SumIdle /\ RegIdle /\ DelIdle /\ UiIdle

SpecPerm == PermSpecInit /\ [][PermNext]_vars

SummaryNext ==
    \/ SessionAppend /\ UNCHANGED <<valVars, permVars, agentVars, regVars, delVars, uiVars>>
    \/ AddSummaryToContext /\ UNCHANGED <<valVars, permVars, agentVars, regVars, delVars, uiVars>>
    \/ GetConversationSummary /\ UNCHANGED <<valVars, permVars, agentVars, regVars, delVars, uiVars>>

SummaryInit == SumInit /\ ValIdle /\ PermIdle /\ AgentIdle /\ RegIdle /\ DelIdle /\ UiIdle

SpecSummary == SummaryInit /\ [][SummaryNext]_vars

SummaryLongNext ==
    \/ AddSummaryToContext /\ UNCHANGED <<valVars, permVars, agentVars, regVars, delVars, uiVars>>
    \/ GetConversationSummary /\ UNCHANGED <<valVars, permVars, agentVars, regVars, delVars, uiVars>>

SummaryLongInit == LongInit /\ ValIdle /\ PermIdle /\ AgentIdle /\ RegIdle /\ DelIdle /\ UiIdle

SpecSummaryLong == SummaryLongInit /\ [][SummaryLongNext]_vars

sides == <<cfgVars, valVars, permVars, sumVars, regVars, uiVars>>

DelegationNext ==
    \/ ParentRequest /\ UNCHANGED sides
    \/ ParentResponse /\ UNCHANGED sides
    \/ ParentRunsTool /\ UNCHANGED sides
    \/ Spawn /\ UNCHANGED sides
    \/ AgentLoopHead /\ UNCHANGED others
    \/ AgentResponse /\ UNCHANGED others
    \/ AgentDispatch /\ UNCHANGED others
    \/ SubagentCallback /\ UNCHANGED others
    \/ SubagentAnswer /\ UNCHANGED others
    \/ AgentToolReturns /\ UNCHANGED others
    \/ ExecuteReturns /\ UNCHANGED sides

DelegationInit == DelInit /\ ValIdle /\ PermIdle /\ SumIdle /\ RegIdle /\ UiIdle

SpecDelegation == DelegationInit /\ [][DelegationNext]_vars

PromptNext ==
    \/ AskPrompt /\ UNCHANGED <<valVars, permVars, agentVars, sumVars, regVars, delVars>>
    \/ KeyPress /\ UNCHANGED <<valVars, permVars, agentVars, sumVars, regVars, delVars>>
    \/ Update /\ UNCHANGED <<valVars, permVars, agentVars, sumVars, regVars, delVars>>
    \/ PromptChTransfer /\ UNCHANGED <<valVars, permVars, agentVars, sumVars, regVars, delVars>>
    \/ AskReturns /\ UNCHANGED <<valVars, permVars, agentVars, sumVars, regVars, delVars>>

PromptInit ==
    UiInit /\ ValIdle /\ PermIdle /\ AgentIdle /\ SumIdle /\ RegIdle /\ DelIdle

SpecPrompt == PromptInit /\ [][PromptNext]_vars

RegistryNext ==
    \/ Register /\ UNCHANGED <<valVars, permVars, agentVars, sumVars, delVars, uiVars>>
    \/ Get /\ UNCHANGED <<valVars, permVars, agentVars, sumVars, delVars, uiVars>>
    \/ ListToolsCall /\ UNCHANGED <<valVars, permVars, agentVars, sumVars, delVars, uiVars>>
    \/ NewAgent /\ UNCHANGED <<valVars, permVars, agentVars, sumVars, delVars, uiVars>>
    \/ AgentBuildsRequest /\ UNCHANGED <<valVars, permVars, agentVars, sumVars, delVars, uiVars>>

RegistryInit == RegInit /\ ValIdle /\ PermIdle /\ AgentIdle /\ SumIdle /\ DelIdle /\ UiIdle

SpecRegistry == RegistryInit /\ [][RegistryNext]_vars

(***************************************************************************)
(* Claims about the permission gateway (specification SpecPerm).           *)
(***************************************************************************)
\* The request being served has run through RequestPermission (it waits for
\* the handler or has returned).
PermInCall == ppc \in {"asking", "returned"}

\* C4: a request whose tool name the allow-list maps to true is granted at
\* once and the interactive handler is never called for it, whatever the
\* arguments and whether or not a handler is configured.
C4_AutoApproveSkipsHandler ==
    (PermInCall /\ pReq.ToolName \in DOMAIN pAuto /\ pAuto[pReq.ToolName])
        => /\ ppc = "returned"
           /\ pResp.Granted = TRUE
           /\ pHandlerCalls = 0
           /\ pHandlerReq = NoRequest

C4_Witness ==
    /\ ppc = "returned"
    /\ pReq.ToolName \in DOMAIN pAuto /\ pAuto[pReq.ToolName]
    /\ pHandler = "ui"
    /\ pReq.Arguments # <<>>
    /\ pResp.Granted

\* C5: with no handler configured, a request whose tool name has no
\* allow-list entry is denied with the fixed default-policy text.
C5_NoHandlerDenies ==
    (PermInCall /\ pHandler = "nil" /\ pReq.ToolName \notin DOMAIN pAuto)
        => /\ ppc = "returned"
           /\ pResp.Granted = FALSE
           /\ pResp.AlternateAction = <<"Permission denied by default policy">>

C5_Witness ==
    /\ ppc = "returned"
    /\ pHandler = "nil"
    /\ pReq.ToolName = "shell"
    /\ pReq.ToolName \notin DOMAIN pAuto
    /\ pResp.Granted = FALSE

\* C6: a request that is not auto-approved (no entry, or an entry of false)
\* reaches a configured handler exactly once, with the request as given, and
\* the handler's response is returned unchanged; serving requests never
\* changes the manager.
C6_Forwarded ==
    (PermInCall /\ pHandler # "nil"
       /\ ~(pReq.ToolName \in DOMAIN pAuto /\ pAuto[pReq.ToolName]))
        => /\ pHandlerCalls = 1
           /\ pHandlerReq = pReq
           /\ (ppc = "returned" =>
                 /\ pResp.Granted = pHandlerResp.Granted
                 /\ pResp.AlternateAction = pHandlerResp.AlternateAction)

C6_HandlerResponseReturned ==
    /\ []C6_Forwarded
    /\ [][pAuto' = pAuto /\ pHandler' = pHandler]_vars

C6_Witness ==
    /\ ppc = "returned"
    /\ pHandler = "ui"
    /\ pReq.ToolName \in DOMAIN pAuto /\ ~pAuto[pReq.ToolName]
    /\ pHandlerCalls = 1
    /\ pResp = MkResponse(FALSE, AlternateText)

(***************************************************************************)
(* Claims about validation (specification SpecValidate).                   *)
(***************************************************************************)
UndeclaredFields == {f \in DOMAIN vInput : f \notin DOMAIN vSchema.Properties}

MissingRequired ==
    {i \in 1..Len(vSchema.Required) : vSchema.Required[i] \notin DOMAIN vInput}

\* C9: for a schema that declares nothing about additional properties,
\* Validate fails for every arguments object with an undeclared field name.
C9_ClosedWorldByDefault ==
    (vpc = "done" /\ vSchema.AdditionalProperties = "unset" /\ UndeclaredFields # {})
        => vErr # NoErr

\* C10: Validate rejects every arguments object that lacks a required field,
\* whatever else the object holds; the error names the first missing field.
C10_MissingRequiredRejected ==
    (vpc = "done" /\ MissingRequired # {})
        => /\ vErr # NoErr
           /\ \E i \in MissingRequired :
                /\ \A j \in MissingRequired : i <= j
                /\ vErr = <<"missing required field: ", vSchema.Required[i]>>

C10_Witness ==
    /\ vpc = "done"
    /\ vSchema.Required = <<"path", "opts">>
    /\ "path" \in DOMAIN vInput /\ "opts" \notin DOMAIN vInput
    /\ "start" \in DOMAIN vInput /\ vInput["start"] = VString
    /\ "extra" \in DOMAIN vInput
    /\ vErr = <<"missing required field: ", "opts">>

\* The runtime type of value v is the declared primitive type.
TypeMatches(type, v) ==
    CASE type = "string" -> v.t = "string"
      [] type \in {"number", "integer"} -> v.t = "number"
      [] type = "boolean" -> v.t = "bool"
      [] type = "array" -> v.t = "array"
      [] type = "object" -> v.t = "object"
      [] OTHER -> TRUE

RECURSIVE HasTypeMismatch(_, _)
\* Some declared field that is present in input, at any depth the schema
\* declares, holds a value of another type than the declared one.
HasTypeMismatch(s, input) ==
    \E f \in DOMAIN input \cap DOMAIN s.Properties :
        LET p == s.Properties[f]
            v == input[f] IN
        \/ ~TypeMatches(p.Type, v)
        \/ /\ p.Type = "array" /\ p.Items # <<>>
           /\ \E i \in DOMAIN v.kids :
                \/ ~TypeMatches(p.Items[1].Type, v.kids[i])
                \/ /\ v.kids[i].t = "object"
                   /\ HasTypeMismatch(p.Items[1], v.kids[i].kids)
        \/ /\ p.Type = "object" /\ DOMAIN p.Properties # {}
           /\ HasTypeMismatch(MkSchema(p.Properties, p.Required,
                                       p.AdditionalProperties), v.kids)

\* C11: Validate fails whenever a declared field that is present holds a
\* value whose type is not the declared one, the values inside array items
\* and nested objects included.
C11_TypeMismatchRejected ==
    (vpc = "done" /\ HasTypeMismatch(vSchema, vInput)) => vErr # NoErr

(***************************************************************************)
(* Claims about the agent loop (specification Spec).                       *)
(***************************************************************************)
ToolIdx == {i \in DOMAIN Messages : Messages[i].Role = "tool"}

InBatch == pc \in {"dispatch", "callback", "asking", "executing"}

AgentDriver == driver \in {"interactive", "subagent"}

\* The tool-role message at i answers the call at its own position in the
\* batch of the nearest preceding assistant message.
AnswersBatch(i) ==
    \E j \in 1..(i - 1) :
        /\ Messages[j].Role = "assistant"
        /\ \A k \in (j + 1)..i : Messages[k].Role = "tool"
        /\ i - j <= Len(Messages[j].ToolCalls)
        /\ Messages[i].ToolCallID = Messages[j].ToolCalls[i - j].ID

\* The tool call of the history that the tool-role message at i answers.
CallAt(i) ==
    LET j == CHOOSE j \in 1..(i - 1) :
                 /\ Messages[j].Role = "assistant"
                 /\ \A k \in (j + 1)..i : Messages[k].Role = "tool"
    IN Messages[j].ToolCalls[i - j]

Executed(id) == \E i \in DOMAIN execLog : execLog[i] = id

Granted(id) == \E k \in DOMAIN permLog : permLog[k].ID = id /\ permLog[k].Granted

Denied(id) == \E k \in DOMAIN permLog : permLog[k].ID = id /\ ~permLog[k].Granted

\* C1: one tool-role message is appended per tool call processed, in batch
\* order, after the assistant message that carried the batch, and its
\* ToolCallID is the ID of its call: every tool-role message of the history
\* answers a call of the nearest preceding assistant message.
C1_ToolMessagesAnswerBatch ==
    /\ Cardinality(ToolIdx) = processed
    /\ \A i \in ToolIdx : AnswersBatch(i)
    /\ InBatch =>
         LET carrier == Len(Messages) - (idx - 1) IN
         /\ carrier \in DOMAIN Messages
         /\ Messages[carrier].Role = "assistant"
         /\ Messages[carrier].ToolCalls = batch

C1_Witness ==
    /\ AgentDriver
    /\ \E j \in DOMAIN Messages :
         /\ Messages[j].Role = "assistant"
         /\ Len(Messages[j].ToolCalls) = 2
         /\ j + 2 <= Len(Messages)
         /\ Messages[j + 1].Role = "tool"
         /\ Messages[j + 2].Role = "tool"
         /\ Messages[j + 1].ToolCallID = Messages[j].ToolCalls[1].ID
         /\ Messages[j + 2].ToolCallID = Messages[j].ToolCalls[2].ID
         /\ Messages[j + 1].ToolCallID # Messages[j + 2].ToolCallID

\* C2: a tool body is invoked for a call only after a permission decision
\* with Granted = true was obtained for that call.
C2_ExecutionNeedsGrant ==
    \A i \in DOMAIN execLog : Granted(execLog[i])

\* C3: when the permission decision for a call is a denial with alternate
\* instruction A, the tool body is never invoked for the call and the
\* call's tool-role message holds the denial notice and A verbatim.
C3_DenialRecorded ==
    \A k \in DOMAIN permLog :
        ~permLog[k].Granted =>
            /\ ~Executed(permLog[k].ID)
            /\ \E i \in ToolIdx :
                 /\ Messages[i].ToolCallID = permLog[k].ID
                 /\ Contains(Messages[i].Content,
                             IF driver = "subagent" THEN SubagentDenialNotice
                             ELSE DenialNotice)
                 /\ Contains(Messages[i].Content, permLog[k].AlternateAction)

C3_Witness ==
    /\ driver = "interactive"
    /\ \E k \in DOMAIN permLog :
         /\ ~permLog[k].Granted
         /\ permLog[k].AlternateAction = AlternateText
         /\ \E i \in ToolIdx :
              /\ Messages[i].ToolCallID = permLog[k].ID
              /\ Messages[i].Content = DenialNotice \o AlternateText

\* The errors Agent.Run returns: none, an interruption, a transport failure,
\* an empty response.
RunErrors ==
    {NoErr, ErrInterrupted, ErrAPI, ErrNoChoices, WrapHandling(ErrToolInterrupted),
     WrapHandling(WrapToolCall(ErrToolInterrupted))}

\* What the tool-role message of a processed call holds, by what went wrong
\* with the call.
RecordedAs(content, call) ==
    IF ~call.Arguments.ok
    THEN content = AgentParseErrorText(call.Name)
    ELSE IF call.Name \notin DOMAIN Registry
    THEN content = NotFoundText(call.Name)
    ELSE IF Denied(call.ID)
    THEN Contains(content, IF driver = "subagent" THEN SubagentDenialNotice
                           ELSE DenialNotice)
    ELSE IF ~Executed(call.ID)
    THEN \E e \in ValidateErrs(Registry[call.Name].InputSchema, call.Arguments.val) :
             content = ExecErrorText(call.Name, e)
    ELSE content \in {ToolOutput(call.Name), ExecErrorText(call.Name, ToolFailureText)}

C7_Recorded ==
    AgentDriver =>
        /\ lastErr \in RunErrors
        /\ \A i \in ToolIdx : RecordedAs(Messages[i].Content, CallAt(i))

\* A step that ends the iteration of a call leaves the Run going: the next
\* call of the batch is up, or the request loop after the last one; and the
\* request loop, unless cancelled, goes on to a model request.
C7_Continues ==
    AgentDriver =>
        /\ (InBatch /\ Messages' # Messages) =>
              /\ idx' = idx + 1
              /\ pc' = (IF idx < Len(batch) THEN "dispatch" ELSE "loop")
              /\ lastErr' = lastErr
        /\ (pc = "loop" /\ pc' # "loop" /\ ~cancelled) =>
              /\ pc' = "awaiting"
              /\ requests' = requests + 1

\* C7: an argument parse failure, an unknown tool name, a validation
\* failure, a tool execution error or a permission denial never makes
\* Agent.Run return an error: each is recorded as the content of the call's
\* tool-role message, the remaining calls of the batch are still
\* dispatched, and another model request follows.
C7_ActionableErrorsRecorded ==
    /\ []C7_Recorded
    /\ [][C7_Continues]_vars

C7_Witness ==
    /\ driver = "interactive"
    /\ lastErr = NoErr
    /\ \E j \in DOMAIN Messages :
         /\ Messages[j].Role = "assistant"
         /\ Len(Messages[j].ToolCalls) = 2
         /\ j + 3 <= Len(Messages)
         /\ Messages[j + 1].Content = NotFoundText("nosuch")
         /\ Messages[j + 2].Content = ExecErrorText("read", ToolFailureText)
         /\ Messages[j + 3].Role = "assistant"

\* The calls whose arguments parse, whose tool exists and which no denial
\* stopped, yet whose arguments the tool's schema rejects.
FailsValidation(call) ==
    /\ call.Arguments.ok
    /\ call.Name \in DOMAIN Registry
    /\ ~Denied(call.ID)
    /\ ValidateErrs(Registry[call.Name].InputSchema, call.Arguments.val) # {}

C8_NotExecuted ==
    \A i \in ToolIdx :
        FailsValidation(CallAt(i)) =>
            /\ ~Executed(CallAt(i).ID)
            /\ \E e \in ValidateErrs(Registry[CallAt(i).Name].InputSchema,
                                     CallAt(i).Arguments.val) :
                 Messages[i].Content = ExecErrorText(CallAt(i).Name, e)

\* The step that ends the iteration of such a call appends its message,
\* invokes nothing and leaves the loop going.
C8_Continues ==
    (InBatch /\ FailsValidation(Call) /\ ~cancelled
       /\ (idx' # idx \/ pc' = "returning")) =>
        /\ Len(Messages') = Len(Messages) + 1
        /\ execLog' = execLog
        /\ pc' \in {"dispatch", "loop"}
        /\ lastErr' = lastErr

\* C8: Tool.Run validates before it executes: when validation fails the
\* tool body is never invoked, the validation failure is the content of the
\* call's tool-role message, and the loop continues.
C8_ValidationBeforeBody ==
    /\ []C8_NotExecuted
    /\ [][C8_Continues]_vars

C8_Witness ==
    /\ \E i \in ToolIdx :
         /\ CallAt(i).Name = "write"
         /\ Messages[i].Content =
              ExecErrorText("write", <<"missing required field: ", "content">>)
         /\ ~Executed(CallAt(i).ID)
    /\ pc = "awaiting"
    /\ requests = 2

\* C12: a Run that is called with a cancelled context returns the
\* interruption error at once: no request is sent, no callback is invoked
\* and the history is as it was at the call.
C12_CancelledBeforeRun ==
    (AgentDriver /\ atCall.cancelled) =>
        /\ pc \in {"loop", "returning", "idle"}
        /\ Messages = atCall.Messages
        /\ requests = atCall.requests
        /\ execLog = atCall.execLog
        /\ permLog = atCall.permLog
        /\ pc # "loop" => (lastErr = ErrInterrupted /\ lastMsg = NoMsg)

C12_Witness ==
    /\ driver = "interactive"
    /\ atCall.cancelled
    /\ pc = "returning"
    /\ lastErr = ErrInterrupted
    /\ requests = 0
    /\ Len(Messages) = 2

\* Once the turn's context is cancelled no tool body is entered, and the
\* body that is running returns its result to the loop, which records it.
C13_Step ==
    (driver = "interactive" /\ cancelled) =>
        /\ execLog' = execLog
        /\ (pc = "executing" /\ pc' # pc) =>
              /\ Len(Messages') = Len(Messages) + 1
              /\ Messages'[Len(Messages')].ToolCallID = Call.ID

\* C13: after the cancellation signal of a turn is triggered the dispatch
\* loop invokes no tool of the batch that has not started yet, and a tool
\* invocation in progress runs to completion.
C13_NoInvocationAfterCancel == [][C13_Step]_vars

\* C14: after the cancellation handle of the top-level turn is cancelled a
\* running sub-agent sends no further model request and invokes no further
\* tool.
C14_SubagentObservesCancel ==
    [][(driver = "subagent" /\ pc # "idle" /\ cancelled) =>
          (requests' = requests /\ execLog' = execLog)]_vars

\* C15: whenever a Run terminates because it observed cancellation, at the
\* head of the loop, in the transport call, or between the tool calls of a
\* batch, the error it returns is the one Interrupted error.
C15_Step ==
    (AgentDriver /\ CtxDone /\ pc # "returning" /\ pc' = "returning") =>
        \/ lastErr' = ErrInterrupted
        \/ pc = "awaiting" /\ lastErr' \in {NoErr, ErrNoChoices}

C15_OneInterruptedError == [][C15_Step]_vars

\* C16: a call of InteractiveAgent.Interrupt returns false and changes
\* nothing when no cancel function is held, and returns true and cancels the
\* context of the current turn when one is held.
C16_Step ==
    (/\ driver = "interactive"
     /\ turns' = turns
     /\ lastInterrupt' # lastInterrupt \/ (cancelled' /\ ~cancelled)) =>
        IF cancelHeld
        THEN lastInterrupt' = "true" /\ cancelled'
        ELSE /\ lastInterrupt' = "false"
             /\ UNCHANGED <<Messages, pc, cancelHeld, cancelled, batch, idx,
                            requests, nextId, processed, lastErr, lastMsg,
                            execLog, permLog, turns, atCall>>

C16_InterruptReturn == [][C16_Step]_vars

\* C17: on a response with finish reason "length" the loop appends the
\* assistant message and then the user message asking to continue, and goes
\* back to the head of the request loop of the same call instead of
\* returning.
C17_Step ==
    (pc = "awaiting" /\ pc' # "awaiting" /\ lastFinish' = "length") =>
        /\ Len(Messages') = Len(Messages) + 2
        /\ SubSeq(Messages', 1, Len(Messages)) = Messages
        /\ Messages'[Len(Messages) + 1].Role = "assistant"
        /\ Messages'[Len(Messages) + 2] = Msg("user", ContinueText, <<>>, "")
        /\ pc' = "loop"
        /\ lastErr' = lastErr

C17_LengthContinues == [][C17_Step]_vars

\* C18: a response whose finish reason is none of tool_calls, stop and length
\* ends the turn like stop: the call returns without error, with the
\* assistant message of the response as its result, and sends no further
\* request.
C18_Step ==
    (/\ pc = "awaiting"
     /\ pc' # "awaiting"
     /\ lastFinish' \notin {"error", "empty", "tool_calls", "stop", "length"}) =>
        /\ pc' = "returning"
        /\ lastErr' = NoErr
        /\ AgentDriver => lastMsg' = Messages'[Len(Messages')]

C18_UnknownFinishStops == [][C18_Step]_vars

\* C19: a failed request is not retried inside the call: on a transport
\* error the call returns the interruption error if its context is cancelled
\* and the transport error otherwise, on a response without choices it
\* returns the empty-response error; nothing is appended for that round and
\* nothing more is sent before the call has returned.
C19_Step ==
    /\ (pc = "awaiting" /\ pc' # "awaiting" /\ lastFinish' \in {"error", "empty"}) =>
          /\ pc' = "returning"
          /\ lastMsg' = NoMsg
          /\ lastErr' = (IF lastFinish' = "empty" THEN ErrNoChoices
                         ELSE IF CtxDone THEN ErrInterrupted ELSE ErrAPI)
          /\ Messages' = Messages
          /\ requests' = requests
    /\ (pc = "returning" /\ lastFinish \in {"error", "empty"}) =>
          (Messages' = Messages /\ requests' = requests)

C19_FailedRequestNotRetried == [][C19_Step]_vars

C19_Witness ==
    /\ AgentDriver
    /\ pc = "idle"
    /\ turns = 1
    /\ lastFinish = "error"
    /\ lastErr = ErrInterrupted
    /\ requests = 2
    /\ Len(Messages) > Len(atCall.Messages)

\* C20: the history is only ever appended to: every step leaves the
\* messages it found in place and in order, so during and after a call,
\* failed or not, the history starts with the messages present at the call,
\* and every request, also that of a call made again after an error, carries
\* the whole history of that moment.
IsPrefix(a, b) == Len(a) <= Len(b) /\ SubSeq(b, 1, Len(a)) = a

C20_Step ==
    /\ IsPrefix(Messages, Messages')
    /\ requests' # requests => reqMessages' = Messages'

C20_AppendOnly == [](IsPrefix(atCall.Messages, Messages)) /\ [][C20_Step]_vars

C20_Witness ==
    /\ pc = "awaiting"
    /\ turns = 1
    /\ Len(atCall.Messages) > 2
    /\ reqMessages = Messages
    /\ Messages = atCall.Messages

\* C21: the sub-agent of the agent tool is advertised exactly the read-only
\* tools that exist in the parent registry, only such tools ever run, and a
\* call that names any other tool is answered "Tool not found" without
\* running anything.
CallWithID(id) ==
    LET j == CHOOSE j \in DOMAIN Messages :
                 \E k \in DOMAIN Messages[j].ToolCalls : Messages[j].ToolCalls[k].ID = id
        k == CHOOSE k \in DOMAIN Messages[j].ToolCalls : Messages[j].ToolCalls[k].ID = id
    IN Messages[j].ToolCalls[k]

C22_Step ==
    driver = "subagent" =>
        IF pc = "returning" /\ pc' = "idle"
        THEN LET last == parentMessages'[Len(parentMessages')] IN
             /\ Len(parentMessages') = Len(parentMessages) + 1
             /\ SubSeq(parentMessages', 1, Len(parentMessages)) = parentMessages
             /\ last.Role = "tool"
             /\ last.ToolCallID = DelegatingCall.ID
             /\ last.Content =
                   IF lastErr = NoErr
                   THEN outputBuilder \o <<"## Final Analysis\n\n">> \o lastMsg.Content
                   ELSE <<"Error running agent: ">> \o lastErr
        ELSE parentMessages' = parentMessages

C22_Inv ==
    driver = "subagent" =>
        /\ Len(parentMessages) =
              Len(ParentHistory) + (IF pc = "idle" THEN 1 ELSE 0)
        /\ SubSeq(parentMessages, 1, Len(ParentHistory)) = ParentHistory
        /\ \A i \in (Len(ParentHistory) + 1)..Len(parentMessages) :
              \A j \in DOMAIN Messages : parentMessages[i] # Messages[j]

C22_OneMessagePerDelegation == []C22_Inv /\ [][C22_Step]_vars

C22_Witness ==
    /\ driver = "subagent"
    /\ pc = "idle"
    /\ lastErr = NoErr
    /\ execLog # <<>>
    /\ Len(Messages) >= 5
    /\ Len(parentMessages) = Len(ParentHistory) + 1
    /\ Len(parentMessages[Len(parentMessages)].Content) > 6

\* C23: with the default permission configuration no step of a sub-agent
\* run opens a prompt of the permission handler or records a decision of
\* the human, whichever tool of its read-only set is called.
C23_NoHumanInput ==
    (driver = "subagent" /\ cfgAuto = DefaultAutoApprove) =>
        /\ pc # "asking"
        /\ \A k \in DOMAIN permLog : permLog[k].By # "handler"

\* The dispatch of the call with this ID has begun: a decision on it or an
\* entry into its body is recorded.
Dispatched(id) ==
    Executed(id) \/ \E k \in DOMAIN permLog : permLog[k].ID = id

\* C32: the calls of a batch are dispatched one at a time in list order:
\* while the batch is handled, the calls before the current one have their
\* tool-role messages, in order, right after the assistant message, and no
\* later call has been touched; the loop moves on by one call, by
\* appending the current call's message; and a model request is sent only
\* when every call of the batch has its message.
C32_Inv ==
    (AgentDriver /\ InBatch) =>
        LET carrier == Len(Messages) - (idx - 1) IN
        /\ Messages[carrier].ToolCalls = batch
        /\ \A k \in 1..(idx - 1) :
               /\ Messages[carrier + k].Role = "tool"
               /\ Messages[carrier + k].ToolCallID = batch[k].ID
        /\ \A k \in DOMAIN batch : Dispatched(batch[k].ID) => k <= idx

C32_Step ==
    AgentDriver =>
        /\ (InBatch /\ idx' # idx) =>
               /\ idx' = idx + 1
               /\ Len(Messages') = Len(Messages) + 1
               /\ Messages'[Len(Messages')].Role = "tool"
               /\ Messages'[Len(Messages')].ToolCallID = batch[idx].ID
        /\ requests' # requests =>
               \A k \in DOMAIN batch :
                   \E i \in DOMAIN Messages :
                       /\ Messages[i].Role = "tool"
                       /\ Messages[i].ToolCallID = batch[k].ID

C32_SequentialDispatch == []C32_Inv /\ [][C32_Step]_vars

C32_Witness ==
    /\ AgentDriver
    /\ Len(batch) = 2
    /\ Len(execLog) = 2
    /\ processed = 2
    /\ requests = 2
    /\ pc = "awaiting"

\* Every tool call of every assistant message of msgs is answered by a
\* tool-role message with its ID before the next user or assistant message.
EveryCallAnswered(msgs) ==
    \A j \in DOMAIN msgs :
        \A k \in DOMAIN msgs[j].ToolCalls :
            \E i \in (j + 1)..Len(msgs) :
                /\ msgs[i].ToolCallID = msgs[j].ToolCalls[k].ID
                /\ \A m \in (j + 1)..i : msgs[m].Role = "tool"

\* C31: the history carried by every model request of Agent.Run, the first
\* request of a Run that follows a failed or cancelled Run included, has
\* every tool call of its assistant messages answered.
C31_RequestsAnswerEveryCall == EveryCallAnswered(reqMessages)

\* C33: the interactive agent and the session hold a cancel function
\* exactly while a Run is in flight; each Run stores the cancel function of
\* a context of its own, cancelled only if the context it is given is, and
\* the field is cleared when the Run ends, so the cancellation of one Run
\* does not reach a later one.
C33_Inv ==
    driver \in {"interactive", "session"} => (cancelHeld <=> pc # "idle")

C33_Step ==
    (driver \in {"interactive", "session"} /\ pc = "idle" /\ pc' # "idle") =>
        /\ cancelHeld'
        /\ cancelled' = atCall'.cancelled

C33_HandleHeldWhileInFlight == []C33_Inv /\ [][C33_Step]_vars

C33_Witness ==
    /\ driver = "interactive"
    /\ ~EveryCallAnswered(Messages)
    /\ pc = "awaiting"
    /\ requests = 2
    /\ cancelHeld
    /\ ~cancelled

(***************************************************************************)
(* Claims about delegation.                                                *)
(***************************************************************************)
SubagentRuns == parentPc # "off" /\ pc # "idle"

\* C34: a sub-agent runs only inside the parent's call of the agent tool,
\* which has not returned: while it runs the parent has no request
\* outstanding, so at most one request is outstanding across the two, and
\* no step of its run changes the parent's history, the number of the
\* parent's requests or the parent's position in its batch.
C34_Inv ==
    /\ SubagentRuns => parentPc = "delegating" /\ ParentCall.Name = "agent"
    /\ ~(parentPc = "awaiting" /\ pc = "awaiting")

C34_Step ==
    (SubagentRuns /\ pc' # "idle") =>
        UNCHANGED <<parentMessages, parentRequests, parentIdx, parentBatch,
                    parentPc, parentErr>>

C34_DelegationIsNested == []C34_Inv /\ [][C34_Step]_vars

\* The sub-agent has a request outstanding while the parent, one request
\* made, waits at the first of two calls of its batch.
C34_Witness ==
    /\ pc = "awaiting"
    /\ parentPc = "delegating"
    /\ parentRequests = 1
    /\ parentIdx = 1
    /\ Len(parentBatch) = 2

SpawnStep == parentPc = "dispatch" /\ parentPc' = "delegating"

\* C35: every spawn leaves the sub-agent with a history of exactly two
\* messages, the delegation system prompt and the task as a user message,
\* and with an output that holds the task header only, whatever the
\* parent's history and the history of an earlier sub-agent are; a running
\* sub-agent's history begins with these two and names no tool call of the
\* parent or of an earlier sub-agent.
C35_Inv ==
    SubagentRuns =>
        /\ Len(Messages) >= 2
        /\ Messages[1] = Msg("system", AgentPromptText, <<>>, "")
        /\ Messages[2] = Msg("user", UserText, <<>>, "")
        /\ \A j \in DOMAIN Messages :
             /\ \A k \in DOMAIN Messages[j].ToolCalls :
                  /\ Messages[j].ToolCalls[k].ID \in {IdOf(n) : n \in spawnFirstId..(nextId - 1)}
                  /\ \A p \in DOMAIN parentBatch :
                       Messages[j].ToolCalls[k].ID # parentBatch[p].ID
             /\ Messages[j].Role = "tool" =>
                  Messages[j].ToolCallID \in {IdOf(n) : n \in spawnFirstId..(nextId - 1)}

C35_Step ==
    SpawnStep =>
        /\ Messages' = <<Msg("system", AgentPromptText, <<>>, ""),
                         Msg("user", UserText, <<>>, "")>>
        /\ outputBuilder' = OutTask
        /\ batch' = <<>>
        /\ lastErr' = NoErr

C35_SpawnStartsFresh == []C35_Inv /\ [][C35_Step]_vars

\* The second sub-agent of a turn at its start, after the first one ran a
\* tool and so ended with a longer history.
C35_Witness ==
    /\ spawns = 2
    /\ pc = "loop"
    /\ Len(Messages) = 2
    /\ execLog # <<>>
    /\ requests >= 1
    /\ Len(parentMessages) > 3

\* C37: the agent tool is not in the registry of a sub-agent nor among the
\* tools its requests advertise; a call of "agent" by the sub-agent's model
\* is answered "Tool not found: agent", is not decided and not executed,
\* and no agent is made while a sub-agent runs.
C37_Inv ==
    parentPc # "off" =>
        /\ "agent" \notin DOMAIN Registry
        /\ \A t \in ListedTools(Registry) : t.Name # "agent"
        /\ \A j \in DOMAIN Messages : \A k \in DOMAIN Messages[j].ToolCalls :
             Messages[j].ToolCalls[k].Name = "agent" =>
                ~Dispatched(Messages[j].ToolCalls[k].ID)

C37_Step ==
    /\ (SubagentRuns /\ pc = "callback" /\ Call.Name = "agent") =>
          /\ Messages' = Append(Messages, ToolMessage(NotFoundText("agent"), Call))
          /\ UNCHANGED <<spawns, execLog, permLog>>
    /\ spawns' # spawns => pc = "idle"

C37_NoNestedDelegation == []C37_Inv /\ [][C37_Step]_vars

\* The sub-agent's model asked for the agent tool and was told that there
\* is no such tool.
C37_Witness ==
    /\ SubagentRuns
    /\ \E j \in DOMAIN Messages :
         /\ Messages[j].Role = "tool"
         /\ Messages[j].Content = NotFoundText("agent")
    /\ spawns = 1

ExecuteReturnStep == parentPc = "delegating" /\ pc = "returning" /\ pc' = "idle"

\* C38: when the Run of a sub-agent returns an error, the parent's turn
\* does not fail: the parent appends one tool message that answers the
\* delegating call with the text "Error running agent: " and the error,
\* records no error of its own, and goes on to the next call of its batch
\* or, after the last call, to its next request.
C38_Step ==
    (ExecuteReturnStep /\ lastErr # NoErr) =>
        /\ parentMessages' =
              Append(parentMessages,
                     Msg("tool", <<"Error running agent: ">> \o lastErr, <<>>,
                         parentBatch[parentIdx].ID))
        /\ parentErr' = NoErr
        /\ parentPc' = IF parentIdx < Len(parentBatch) THEN "dispatch" ELSE "loop"
        /\ parentIdx' = parentIdx + 1

C38_SubagentFailureIsAResult == [][C38_Step]_vars

\* The parent has sent its second request after a sub-agent whose model
\* returned no choice.
C38_Witness ==
    /\ parentPc = "awaiting"
    /\ parentRequests = 2
    /\ parentErr = NoErr
    /\ parentMessages[Len(parentMessages)] =
          Msg("tool", <<"Error running agent: ">> \o ErrNoChoices, <<>>, "parent_1")

\* The errors a Run ends with when it has noticed the cancellation.
InterruptionErrors ==
    {ErrInterrupted, WrapHandling(ErrToolInterrupted),
     WrapHandling(WrapToolCall(ErrToolInterrupted))}

\* C39: when the Run of a turn has returned and the latest Interrupt since
\* the turn began returned true, the Run returned an interruption error;
\* and an Interrupt returns false only when no turn is in flight.
C39_InterruptEndsTurn ==
    driver = "interactive" =>
        /\ (pc = "idle" /\ turns > 0 /\ lastInterrupt = "true") =>
              lastErr \in InterruptionErrors
        /\ lastInterrupt = "false" => pc = "idle"

\* The update loop is inside its send on promptCh and the asking thread is
\* not in a prompt: nothing receives until a later prompt is asked.
Stalled == updPc = "sending" /\ askPc = "idle"

\* C40: every answer a prompt returned comes from a key pressed while that
\* prompt was on display, and the update loop is never inside its send on
\* promptCh when no prompt is waiting for an answer.
C40_AnswersComeFromOwnPrompt ==
    askPc # "off" =>
        /\ \A i \in DOMAIN answers : answers[i].shown = answers[i].prompt
        /\ ~Stalled

Next ==
    \/ InteractiveTurn /\ UNCHANGED others
    \/ Interrupt /\ UNCHANGED others
    \/ InterruptDuringReturn /\ UNCHANGED others
    \/ AgentLoopHead /\ UNCHANGED others
    \/ AgentResponse /\ UNCHANGED others
    \/ AgentDispatch /\ UNCHANGED others
    \/ InteractiveCallback /\ UNCHANGED others
    \/ InteractiveAnswer /\ UNCHANGED others
    \/ SubagentCallback /\ UNCHANGED others
    \/ SubagentAnswer /\ UNCHANGED others
    \/ AgentToolReturns /\ UNCHANGED others
    \/ SessionTurn /\ UNCHANGED others
    \/ SessionRequest /\ UNCHANGED others
    \/ SessionResponse /\ UNCHANGED others
    \/ SessionDispatch /\ UNCHANGED others
    \/ SessionToolReturns /\ UNCHANGED others
    \/ RunReturns /\ UNCHANGED others

Init == AgentInit /\ ValIdle /\ PermIdle /\ SumIdle /\ RegIdle /\ DelIdle /\ UiIdle

Spec == Init /\ [][Next]_vars

=============================================================================
